---- MODULE Spec2Model ----
(***************************************************************************)
(* A model of the retrieval-augmented multiple-choice agent: the answer    *)
(* parser (agent/utils/answer_parser.py), the textbook chunker and the     *)
(* embedding cache (agent/textbook_processor.py), the API client           *)
(* (agent/utils/api_client.py) and the agent (agent/hip_agent.py).         *)
(*                                                                         *)
(* Strings are sequences of one-character strings.  Each component has its *)
(* own specification; a specification pins the variables of the other      *)
(* components to their idle values.                                        *)
(***************************************************************************)
EXTENDS Integers, Sequences, FiniteSets, TLC

VARIABLES
    response_text,    \* AnswerParser.extract_answer: the model's response
    answer_choices,   \* AnswerParser.extract_answer: the choice texts
    parsed,           \* <<>> before the call, <<result>> after it
    text,             \* chunk_textbook: the normalized textbook text
    chunk_size,       \* chunk_textbook: the target size in tokens
    overlap,          \* chunk_textbook: the overlap in tokens
    chunk_result,     \* <<>> before the call, <<chunks>> after it
    textbook_file,    \* the textbook on disk
    cache_file,       \* .cache/textbook_embeddings.json on disk
    model_name,       \* TextbookProcessor.model_name
    proc,             \* the last call on the processor and what it did
    retriever,        \* HIPAgent._retriever: NoRetriever (None) or <<the Retriever>>
    pc,               \* where get_response is: "idle", or in the API call of
                      \* the "main" or the "basic" prompt
    attempt,          \* call_with_retry's loop variable
    cur_question,     \* get_response's arguments
    cur_choices,
    outcome,          \* how the last get_response ended
    calls,            \* get_response calls made so far
    process_calls,    \* calls of TextbookProcessor.process() so far
    model_loads,      \* runs of the SentenceTransformer constructor so far
    api_calls,        \* invocations of the API function in this get_response
    rcall,            \* the last call on a Retriever and what it returned
    client            \* APIClient.call_with_retry: where the call is, the
                      \* invocations and the waits it has made, its result

parserVars == <<response_text, answer_choices, parsed>>

chunkerVars == <<text, chunk_size, overlap, chunk_result>>

processorVars == <<textbook_file, cache_file, model_name, proc>>

agentVars ==
    <<retriever, pc, attempt, cur_question, cur_choices, outcome, calls,
      process_calls, model_loads, api_calls>>

retrieverVars == <<rcall>>

clientVars == <<client>>

vars ==
    <<parserVars, chunkerVars, processorVars, agentVars, retrieverVars, clientVars>>

(***************************************************************************)
(* Strings                                                                 *)
(***************************************************************************)

Min(S) == CHOOSE x \in S : \A y \in S : x <= y

Max(a, b) == IF a >= b THEN a ELSE b

\* str.lower() on the characters the model's inputs are made of.
Lower(c) ==
    CASE c = "A" -> "a"
      [] c = "B" -> "b"
      [] c = "C" -> "c"
      [] c = "D" -> "d"
      [] c = "X" -> "x"
      [] OTHER -> c

LowerStr(s) == [i \in 1..Len(s) |-> Lower(s[i])]

\* Python's whitespace (str.strip, str.split, the regex class \s).
WhiteSpace == {" ", "\n"}

\* The characters of the inputs that are not regex word characters (\w).
NonWordChars == WhiteSpace \cup {".", "!", "?", ",", ":"}

IsWordChar(c) == c \notin NonWordChars

\* str.strip(): the text without its leading and trailing whitespace.
RECURSIVE LStrip(_)
LStrip(s) ==
    IF s = <<>> THEN <<>>
    ELSE IF s[1] \in WhiteSpace THEN LStrip(Tail(s)) ELSE s

RECURSIVE RStrip(_)
RStrip(s) ==
    IF s = <<>> THEN <<>>
    ELSE IF s[Len(s)] \in WhiteSpace THEN RStrip(SubSeq(s, 1, Len(s) - 1)) ELSE s

Strip(s) == RStrip(LStrip(s))

\* `sub in s` for Python strings.
IsSubstring(sub, s) ==
    \E i \in 1..(Len(s) - Len(sub) + 1) : SubSeq(s, i, i + Len(sub) - 1) = sub

RECURSIVE Concat(_)
Concat(ss) == IF ss = <<>> THEN <<>> ELSE Head(ss) \o Concat(Tail(ss))

(***************************************************************************)
(* Regular expressions, as far as answer_parser.py uses them: a pattern is *)
(* a sequence of elements, each one character of a class ("chr"), a greedy *)
(* repetition of a class with a minimum count ("rep"), the capture group   *)
(* of one character of a class ("cap") or a word boundary ("wb").  All     *)
(* matching is case-insensitive (re.IGNORECASE): classes hold lower case.  *)
(***************************************************************************)

Chr(set) == [t |-> "chr", set |-> set, min |-> 1]
Rep(set, min) == [t |-> "rep", set |-> set, min |-> min]
Cap(set) == [t |-> "cap", set |-> set, min |-> 1]
WordBoundary == [t |-> "wb", set |-> {}, min |-> 0]

Lit(s) == [i \in 1..Len(s) |-> Chr({s[i]})]

\* The length of the run of characters of `set` in s from position i.
RECURSIVE Run(_, _, _)
Run(s, i, set) ==
    IF i <= Len(s) /\ Lower(s[i]) \in set THEN 1 + Run(s, i + 1, set) ELSE 0

\* \b at position i (between s[i-1] and s[i]).
AtWordBoundary(s, i) ==
    LET before == i > 1 /\ IsWordChar(s[i - 1])
        after == i <= Len(s) /\ IsWordChar(s[i])
    IN  before # after

\* The capture of a match of pat[k..] at position i of s, "" when there is none.
\* A repetition tries its longest run first and backtracks.
RECURSIVE MatchHere(_, _, _, _, _)
RECURSIVE MatchRep(_, _, _, _, _, _)
MatchHere(pat, k, s, i, cap) ==
    IF k > Len(pat) THEN cap
    ELSE LET e == pat[k] IN
        CASE e.t = "chr" ->
                IF i <= Len(s) /\ Lower(s[i]) \in e.set
                THEN MatchHere(pat, k + 1, s, i + 1, cap) ELSE ""
          [] e.t = "cap" ->
                IF i <= Len(s) /\ Lower(s[i]) \in e.set
                THEN MatchHere(pat, k + 1, s, i + 1, s[i]) ELSE ""
          [] e.t = "wb" ->
                IF AtWordBoundary(s, i)
                THEN MatchHere(pat, k + 1, s, i, cap) ELSE ""
          [] e.t = "rep" -> MatchRep(pat, k, s, i, cap, Run(s, i, e.set))

MatchRep(pat, k, s, i, cap, n) ==
    IF n < pat[k].min THEN ""
    ELSE LET m == MatchHere(pat, k + 1, s, i + n, cap) IN
         IF m # "" THEN m ELSE MatchRep(pat, k, s, i, cap, n - 1)

\* re.search(pat, s, re.IGNORECASE).group(1): the capture of the leftmost
\* match, "" when the pattern matches nowhere.
RECURSIVE SearchFrom(_, _, _)
SearchFrom(pat, s, i) ==
    IF i > Len(s) + 1 THEN ""
    ELSE LET m == MatchHere(pat, 1, s, i, "") IN
         IF m # "" THEN m ELSE SearchFrom(pat, s, i + 1)

ReSearch(pat, s) == SearchFrom(pat, s, 1)

(***************************************************************************)
(* agent/utils/answer_parser.py                                            *)
(***************************************************************************)

LettersAD == {"a", "b", "c", "d"}
Digits03 == {"0", "1", "2", "3"}

COT_PATTERNS == <<
    Lit(<<"t","h","e","r","e","f","o","r","e">>) \o <<Rep({",", " ", "\n"}, 1)>>
        \o Lit(<<"t","h","e">>) \o <<Rep(WhiteSpace, 1)>>
        \o Lit(<<"a","n","s","w","e","r">>) \o <<Rep(WhiteSpace, 1)>>
        \o Lit(<<"i","s">>) \o <<Rep(WhiteSpace, 1), Cap(LettersAD)>>,
    Lit(<<"a","n","s","w","e","r",":">>) \o <<Rep(WhiteSpace, 0), Cap(LettersAD)>>,
    Lit(<<"c","o","n","c","l","u","s","i","o","n">>)
        \o <<Rep({":", " ", "\n"}, 1), Cap(LettersAD)>>,
    Lit(<<"t","h","e">>) \o <<Rep(WhiteSpace, 1)>>
        \o Lit(<<"c","o","r","r","e","c","t">>) \o <<Rep(WhiteSpace, 1)>>
        \o Lit(<<"a","n","s","w","e","r">>) \o <<Rep(WhiteSpace, 1)>>
        \o Lit(<<"i","s">>) \o <<Rep(WhiteSpace, 1), Cap(LettersAD)>>,
    Lit(<<"a","n","s","w","e","r">>) \o <<Rep(WhiteSpace, 1)>>
        \o Lit(<<"i","s">>) \o <<Rep(WhiteSpace, 1), Cap(LettersAD)>>
>>

LETTER_PATTERN == <<WordBoundary, Cap(LettersAD), WordBoundary>>

DIGIT_PATTERN == <<WordBoundary, Cap(Digits03), WordBoundary>>

\* ord(letter.upper()) - ord('A')
LetterIndex(c) ==
    CASE Lower(c) = "a" -> 0
      [] Lower(c) = "b" -> 1
      [] Lower(c) = "c" -> 2
      [] Lower(c) = "d" -> 3

\* int(number_match.group(1))
DigitValue(c) ==
    CASE c = "0" -> 0
      [] c = "1" -> 1
      [] c = "2" -> 2
      [] c = "3" -> 3

\* Strategy 1: the capture of the first pattern of COT_PATTERNS, in list
\* order, that matches anywhere; "" when none does.
RECURSIVE CotSearch(_, _)
CotSearch(k, s) ==
    IF k > Len(COT_PATTERNS) THEN ""
    ELSE LET m == ReSearch(COT_PATTERNS[k], s) IN
         IF m # "" THEN m ELSE CotSearch(k + 1, s)

\* Strategy 4: the first i, in list order, with choices[i].lower() in
\* response.lower(), as a 0-based index; -1 when there is none.
RECURSIVE FuzzyMatch(_, _, _)
FuzzyMatch(i, choices, response_lower) ==
    IF i > Len(choices) THEN -1
    ELSE IF IsSubstring(LowerStr(choices[i]), response_lower) THEN i - 1
    ELSE FuzzyMatch(i + 1, choices, response_lower)

extract_answer_digit_first(s, choices) ==
    IF s = <<>> \/ Len(Strip(s)) = 0 THEN -1
    ELSE IF CotSearch(1, s) # "" THEN LetterIndex(CotSearch(1, s))
    ELSE IF ReSearch(DIGIT_PATTERN, s) # "" THEN DigitValue(ReSearch(DIGIT_PATTERN, s))
    ELSE IF ReSearch(LETTER_PATTERN, s) # "" THEN LetterIndex(ReSearch(LETTER_PATTERN, s))
    ELSE FuzzyMatch(1, choices, LowerStr(s))

extract_answer(s, choices) ==
    IF s = <<>> \/ Len(Strip(s)) = 0 THEN -1
    ELSE LET cot == CotSearch(1, s) IN
         IF cot # "" THEN LetterIndex(cot)
         ELSE LET letter == ReSearch(LETTER_PATTERN, s) IN
              IF letter # "" THEN LetterIndex(letter)
              ELSE LET digit == ReSearch(DIGIT_PATTERN, s) IN
                   IF digit # "" THEN DigitValue(digit)
                   ELSE FuzzyMatch(1, choices, LowerStr(s))

MIN_CHOICES == 2
MAX_CHOICES == 4

(***************************************************************************)
(* The parser's inputs: a response is up to MaxAtoms pieces of text put    *)
(* together, a choice list is MIN_CHOICES..MAX_CHOICES consecutive texts   *)
(* of a pool.                                                              *)
(***************************************************************************)

MaxAtoms == 3

ResponseAtoms == {
    <<"a","n","s","w","e","r"," ","i","s"," ">>,
    <<"a","n","s","w","e","r",":">>,
    <<"b">>, <<"D"," ">>, <<"c","x">>, <<"x">>, <<" ">>, <<"3"," ">>, <<"0">>
}

AtomSeqs == UNION {[1..n -> ResponseAtoms] : n \in 0..MaxAtoms}

Responses == {Concat(as) : as \in AtomSeqs}

ChoicePool == << <<"y">>, <<"c","x">>, <<"X">>, <<"x"," ">>, <<"y","y">> >>

ChoiceLists ==
    {SubSeq(ChoicePool, w[1], w[1] + w[2] - 1) :
        w \in {v \in (1..Len(ChoicePool)) \X (MIN_CHOICES..MAX_CHOICES) :
                    v[1] + v[2] - 1 <= Len(ChoicePool)}}

ParserInit ==
    /\ response_text \in Responses
    /\ answer_choices \in ChoiceLists
    /\ parsed = <<>>

ParserIdle ==
    /\ response_text = <<>>
    /\ answer_choices = <<>>
    /\ parsed = <<>>

\* A call of AnswerParser.extract_answer(response_text, answer_choices).
ExtractAnswer ==
    /\ parsed = <<>>
    /\ parsed' = <<extract_answer(response_text, answer_choices)>>
    /\ UNCHANGED <<response_text, answer_choices>>
    /\ UNCHANGED <<chunkerVars, processorVars, agentVars, retrieverVars, clientVars>>

(***************************************************************************)
(* The four strategies of section 4.6, stated on the text itself.          *)
(***************************************************************************)

\* The cue patterns that match somewhere in s.
CuesMatching(s) == {k \in 1..Len(COT_PATTERNS) : ReSearch(COT_PATTERNS[k], s) # ""}

\* The positions of s that hold a character of `set` with no word character
\* next to it on either side.
Standalone(s, set) ==
    {i \in 1..Len(s) :
        /\ Lower(s[i]) \in set
        /\ i = 1 \/ ~IsWordChar(s[i - 1])
        /\ i = Len(s) \/ ~IsWordChar(s[i + 1])}

\* The 1-based positions of the choices whose text occurs in s, ignoring case.
ChoicesOccurring(s, choices) ==
    {i \in 1..Len(choices) : IsSubstring(LowerStr(choices[i]), LowerStr(s))}

IsBlank(s) == \A i \in 1..Len(s) : s[i] \in WhiteSpace

CascadeResult(s, choices) ==
    IF IsBlank(s) THEN -1
    ELSE IF CuesMatching(s) # {}
        THEN LetterIndex(ReSearch(COT_PATTERNS[Min(CuesMatching(s))], s))
    ELSE IF Standalone(s, LettersAD) # {}
        THEN LetterIndex(s[Min(Standalone(s, LettersAD))])
    ELSE IF Standalone(s, Digits03) # {}
        THEN DigitValue(s[Min(Standalone(s, Digits03))])
    ELSE IF ChoicesOccurring(s, choices) # {}
        THEN Min(ChoicesOccurring(s, choices)) - 1
    ELSE -1

\* C2: extract_answer returns -1 or an index i with 0 <= i < len(answer_choices).
C2_ResultIndexesChoices ==
    parsed # <<>> =>
        \/ parsed[1] = -1
        \/ 0 <= parsed[1] /\ parsed[1] < Len(answer_choices)

\* C10: extract_answer is the ordered cascade: the cue strategy's index if a
\* cue pattern matches, else the first standalone letter's, else the first
\* standalone digit's, else the lowest index of a choice occurring in the
\* response, and -1 exactly when none matches or the response is blank.
C10_OrderedCascade ==
    parsed # <<>> =>
        /\ parsed[1] = CascadeResult(response_text, answer_choices)
        /\ parsed[1] = -1 <=>
              \/ IsBlank(response_text)
              \/ /\ CuesMatching(response_text) = {}
                 /\ Standalone(response_text, LettersAD) = {}
                 /\ Standalone(response_text, Digits03) = {}
                 /\ ChoicesOccurring(response_text, answer_choices) = {}

\* A response in which a cue and a standalone letter both occur, and the
\* cue's letter is not the first standalone letter.
C10_Witness ==
    /\ parsed # <<>>
    /\ CuesMatching(response_text) # {}
    /\ Standalone(response_text, LettersAD) # {}
    /\ parsed[1] # LetterIndex(response_text[Min(Standalone(response_text, LettersAD))])

(***************************************************************************)
(* agent/textbook_processor.py: chunk_textbook                             *)
(***************************************************************************)

\* text.split('\n\n')
RECURSIVE SplitParagraphs(_)
SplitParagraphs(s) ==
    LET at == {i \in 1..(Len(s) - 1) : s[i] = "\n" /\ s[i + 1] = "\n"} IN
    IF at = {} THEN <<s>>
    ELSE <<SubSeq(s, 1, Min(at) - 1)>>
            \o SplitParagraphs(SubSeq(s, Min(at) + 2, Len(s)))

SentenceEnd == {".", "!", "?"}

\* re.split(r'([.!?]\s+)', para): the pieces between the separators and, as
\* the pattern is a capture group, the separators themselves, alternating.
RECURSIVE ReSplitSentences(_)
ReSplitSentences(s) ==
    LET at == {i \in 1..(Len(s) - 1) : s[i] \in SentenceEnd /\ s[i + 1] \in WhiteSpace} IN
    IF at = {} THEN <<s>>
    ELSE LET i == Min(at)
             n == Run(s, i + 1, WhiteSpace)
         IN  <<SubSeq(s, 1, i - 1), SubSeq(s, i, i + n)>>
                \o ReSplitSentences(SubSeq(s, i + n + 1, Len(s)))

\* for i in range(0, len(sentences) - 1, 2): sentences[i] + sentences[i + 1]
\* when i + 1 < len(sentences), else sentences[i].
SentencePairs(sentences) ==
    [j \in 1..(Len(sentences) \div 2) |->
        IF 2 * j <= Len(sentences)
        THEN sentences[2 * j - 1] \o sentences[2 * j]
        ELSE sentences[2 * j - 1]]

\* sent.split()
RECURSIVE SplitWords(_)
SplitWords(s) ==
    LET t == LStrip(s) IN
    IF t = <<>> THEN <<>>
    ELSE LET ws == {i \in 1..Len(t) : t[i] \in WhiteSpace}
             n == IF ws = {} THEN Len(t) ELSE Min(ws) - 1
         IN  <<SubSeq(t, 1, n)>> \o SplitWords(SubSeq(t, n + 1, Len(t)))

\* The loop state of chunk_textbook.
ChunkerStart ==
    [chunks |-> <<>>, current_chunk |-> <<>>, current_start |-> 0, chunk_index |-> 0]

AppendChunk_index_kept(st) ==
    [st EXCEPT
        !.chunks = Append(@, [text |-> st.current_chunk,
                              start_char |-> st.current_start,
                              end_char |-> st.current_start + Len(st.current_chunk),
                              chunk_index |-> st.chunk_index])]

\* chunks.append({...}); chunk_index += 1
AppendChunk(st) ==
    [st EXCEPT
        !.chunks = Append(@, [text |-> st.current_chunk,
                              start_char |-> st.current_start,
                              end_char |-> st.current_start + Len(st.current_chunk),
                              chunk_index |-> st.chunk_index]),
        !.chunk_index = @ + 1]

\* current_chunk[overlap_start:], with overlap_start = max(0, len - overlap_chars)
OverlapStart(cur, overlap_chars) == Max(0, Len(cur) - overlap_chars)

OverlapText_leading(cur, overlap_chars) ==
    SubSeq(cur, 1, Len(cur) - OverlapStart(cur, overlap_chars))

OverlapText(cur, overlap_chars) ==
    SubSeq(cur, OverlapStart(cur, overlap_chars) + 1, Len(cur))

\* Close the current chunk and start the next one with the overlap text,
\* the separator and the piece that did not fit.
CloseAndSeed(st, sep, piece, overlap_chars) ==
    LET cur == st.current_chunk
        ot == OverlapText(cur, overlap_chars)
    IN  [AppendChunk(st) EXCEPT
            !.current_start = @ + OverlapStart(cur, overlap_chars),
            !.current_chunk = IF ot # <<>> THEN ot \o sep \o piece ELSE piece]

\* current_chunk += sep + piece if current_chunk else piece
Accumulate(st, sep, piece) ==
    [st EXCEPT !.current_chunk = IF @ # <<>> THEN @ \o sep \o piece ELSE piece]

\* The body of `for word in words`.
WordStep(st, word, size, overlap_chars) ==
    IF Len(st.current_chunk) + Len(word) + 1 <= size
    THEN Accumulate(st, <<" ">>, word)
    ELSE IF st.current_chunk # <<>>
    THEN CloseAndSeed(st, <<" ">>, word, overlap_chars)
    ELSE [st EXCEPT !.current_chunk = word]

RECURSIVE WordLoop(_, _, _, _)
WordLoop(st, words, size, overlap_chars) ==
    IF words = <<>> THEN st
    ELSE WordLoop(WordStep(st, Head(words), size, overlap_chars),
                  Tail(words), size, overlap_chars)

\* The body of `for sent in sentence_pairs`.
SentenceStep(st, raw, size, overlap_chars) ==
    LET sent == Strip(raw) IN
    IF sent = <<>> THEN st
    ELSE IF Len(st.current_chunk) + Len(sent) + 1 <= size
    THEN Accumulate(st, <<" ">>, sent)
    ELSE IF st.current_chunk # <<>>
    THEN CloseAndSeed(st, <<" ">>, sent, overlap_chars)
    ELSE WordLoop(st, SplitWords(sent), size, overlap_chars)

RECURSIVE SentenceLoop(_, _, _, _)
SentenceLoop(st, sents, size, overlap_chars) ==
    IF sents = <<>> THEN st
    ELSE SentenceLoop(SentenceStep(st, Head(sents), size, overlap_chars),
                      Tail(sents), size, overlap_chars)

\* "Check if we need to finalize after adding paragraph"
FinalizeIfFull(st, size, overlap_chars) ==
    IF Len(st.current_chunk) >= size
    THEN [AppendChunk(st) EXCEPT
            !.current_start = @ + OverlapStart(st.current_chunk, overlap_chars),
            !.current_chunk = OverlapText(st.current_chunk, overlap_chars)]
    ELSE st

\* The body of `for para in paragraphs`.
ParagraphStep(st, raw, size, overlap_chars) ==
    LET para == Strip(raw) IN
    IF para = <<>> THEN st
    ELSE IF Len(st.current_chunk) + Len(para) + 2 <= size
    THEN Accumulate(st, <<"\n", "\n">>, para)
    ELSE FinalizeIfFull(
            IF st.current_chunk # <<>>
            THEN CloseAndSeed(st, <<"\n", "\n">>, para, overlap_chars)
            ELSE SentenceLoop(st, SentencePairs(ReSplitSentences(para)),
                              size, overlap_chars),
            size, overlap_chars)

RECURSIVE ParagraphLoop(_, _, _, _)
ParagraphLoop(st, paras, size, overlap_chars) ==
    IF paras = <<>> THEN st
    ELSE ParagraphLoop(ParagraphStep(st, Head(paras), size, overlap_chars),
                       Tail(paras), size, overlap_chars)

CHARS_PER_TOKEN == 4

\* TextbookProcessor.chunk_textbook(text, chunk_size, overlap)
chunk_textbook(t, size_tokens, overlap_tokens) ==
    LET st == ParagraphLoop(ChunkerStart, SplitParagraphs(t),
                            size_tokens * CHARS_PER_TOKEN,
                            overlap_tokens * CHARS_PER_TOKEN)
    IN  IF st.current_chunk # <<>> THEN AppendChunk(st).chunks ELSE st.chunks

(***************************************************************************)
(* The chunker's inputs: every normalized text (stripped, no three         *)
(* newlines in a row: what load_textbook returns) of up to MaxTextLen      *)
(* characters, one letter and "." standing for the letters and the         *)
(* sentence terminators.                                                   *)
(***************************************************************************)

MaxTextLen == 8

TextAlphabet == {"a", ".", " ", "\n"}

ChunkSizes == {1, 2}

Overlaps == {0, 1}

IsNormalized(t) ==
    /\ Strip(t) = t
    /\ \A i \in 1..(Len(t) - 2) : ~(t[i] = "\n" /\ t[i + 1] = "\n" /\ t[i + 2] = "\n")

Texts == {t \in UNION {[1..n -> TextAlphabet] : n \in 0..MaxTextLen} : IsNormalized(t)}

ChunkerInit ==
    /\ text \in Texts
    /\ chunk_size \in ChunkSizes
    /\ overlap \in Overlaps
    /\ chunk_result = <<>>

ChunkerIdle ==
    /\ text = <<>>
    /\ chunk_size = 0
    /\ overlap = 0
    /\ chunk_result = <<>>

\* A call of TextbookProcessor.chunk_textbook(text, chunk_size, overlap).
ChunkTextbook ==
    /\ chunk_result = <<>>
    /\ chunk_result' = <<chunk_textbook(text, chunk_size, overlap)>>
    /\ UNCHANGED <<text, chunk_size, overlap>>
    /\ UNCHANGED <<parserVars, processorVars, agentVars, retrieverVars, clientVars>>


(***************************************************************************)
(* agent/textbook_processor.py: the textbook file, the embedding cache     *)
(* file and process().  A call's outcome is a record whose field exc names *)
(* the exception that left the call ("none": it returned).                 *)
(***************************************************************************)

DEFAULT_MODEL == "all-mpnet-base-v2"
DEFAULT_CHUNK_SIZE == 800
DEFAULT_OVERLAP == 50

\* re.sub(r'\n{3,}', '\n\n', text)
RECURSIVE CollapseNewlines(_)
CollapseNewlines(s) ==
    IF s = <<>> THEN <<>>
    ELSE IF s[1] = "\n"
    THEN LET n == Run(s, 1, {"\n"}) IN
         (IF n >= 3 THEN <<"\n", "\n">> ELSE SubSeq(s, 1, n))
            \o CollapseNewlines(SubSeq(s, n + 1, Len(s)))
    ELSE <<s[1]>> \o CollapseNewlines(Tail(s))

\* TextbookProcessor.load_textbook()
load_textbook(file) ==
    IF file.kind = "missing" THEN [exc |-> "FileNotFoundError", text |-> <<>>]
    ELSE IF file.kind = "undecodable" THEN [exc |-> "ValueError", text |-> <<>>]
    ELSE IF file.content = <<>> \/ Len(Strip(file.content)) = 0
    THEN [exc |-> "ValueError", text |-> <<>>]
    ELSE [exc |-> "none", text |-> Strip(CollapseNewlines(file.content))]

\* TextbookProcessor._calculate_textbook_hash: the SHA-256 digest of the
\* text; two texts have one digest only if they are equal.
calculate_textbook_hash(t) == <<"sha256:">> \o t

\* model.encode(texts): the embedding model is a fixed function of the text,
\* giving float32 vectors of one dimension.
EncodeText(t) == [dtype |-> "float32", data |-> <<Len(t) % 2, 1>>]

\* np.array(emb) for a list read from JSON
NpArray(list) == [dtype |-> "float64", data |-> list]

\* A variant of ToList that loses the last component.
ToList_dropping_last(emb) == SubSeq(emb.data, 1, Len(emb.data) - 1)

\* emb.tolist()
ToList(emb) == emb.data

\* The file save_embeddings_cache writes with json.dump.
CacheData(chunks, embeddings, textbook_hash, name) ==
    [kind |-> "object",
     keys |-> {"chunks", "embeddings", "metadata"},
     chunks |-> chunks,
     embeddings |-> [i \in 1..Len(embeddings) |-> ToList(embeddings[i])],
     metadata |-> [is_object |-> TRUE, model |-> name, textbook_hash |-> textbook_hash]]

NoCache == <<>>

\* TextbookProcessor.load_embeddings_cache(): the cached (chunks, embeddings,
\* textbook_hash), or None (NoCache).  Only json.JSONDecodeError, KeyError
\* and ValueError are caught.
load_embeddings_cache(cf, name) ==
    CASE cf.kind = "missing" -> [exc |-> "none", cached |-> NoCache]
      [] cf.kind = "invalid_json" -> [exc |-> "none", cached |-> NoCache]
         \* `"chunks" not in cache_data` on a number, true, false or null
      [] cf.kind = "scalar" -> [exc |-> "TypeError", cached |-> NoCache]
         \* a list that does not hold the three key names
      [] cf.kind = "array" -> [exc |-> "none", cached |-> NoCache]
      [] cf.kind = "object" ->
            IF {"chunks", "embeddings", "metadata"} \ cf.keys # {}
            THEN [exc |-> "none", cached |-> NoCache]
            \* cache_data["metadata"].get on a value that is not a dict
            ELSE IF ~cf.metadata.is_object
            THEN [exc |-> "AttributeError", cached |-> NoCache]
            ELSE IF cf.metadata.model # name
            THEN [exc |-> "none", cached |-> NoCache]
            ELSE IF Len(cf.embeddings) > 0 /\ Len(cf.embeddings[1]) = 0
            THEN [exc |-> "none", cached |-> NoCache]
            ELSE [exc |-> "none",
                  cached |-> <<[chunks |-> cf.chunks,
                                embeddings |-> [i \in 1..Len(cf.embeddings) |->
                                                    NpArray(cf.embeddings[i])],
                                textbook_hash |-> cf.metadata.textbook_hash]>>]

\* What a call of process() meets outside the program: whether the
\* SentenceTransformer constructor and model.encode succeed, and how the
\* write of the cache file ends ("ok", "open_failed": the file is left as it
\* was, "write_failed": json.dump stops part-way and leaves a truncated file).
ProcessEnvs ==
    [model_ok : BOOLEAN, encode_ok : BOOLEAN, save : {"ok", "open_failed", "write_failed"}]

\* What a call did besides returning: reads of the textbook, runs of
\* chunk_textbook, of the model constructor and of model.encode, and
\* whether save_embeddings_cache was called.
NoEvents == [chunked |-> FALSE, model_loads |-> 0, embedded |-> FALSE, saved |-> FALSE]

\* A variant of ProcessRaises that leaves a truncated cache file behind.
ProcessRaises_truncating(e, cf, ev) ==
    [exc |-> e, chunks |-> <<>>, embeddings |-> <<>>,
     cache_file |-> [kind |-> "invalid_json"],
     from_cache |-> FALSE, events |-> ev]

ProcessRaises(e, cf, ev) ==
    [exc |-> e, chunks |-> <<>>, embeddings |-> <<>>, cache_file |-> cf,
     from_cache |-> FALSE, events |-> ev]

\* save_embeddings_cache: the cache file after the call.
SavedFile(cf, chunks, embeddings, textbook_hash, name, save) ==
    CASE save = "ok" -> CacheData(chunks, embeddings, textbook_hash, name)
      [] save = "open_failed" -> cf
      [] save = "write_failed" -> [kind |-> "invalid_json"]

\* TextbookProcessor.save_embeddings_cache(chunks, embeddings, hash): the
\* exception of a failed open or json.dump is printed and raised again.
save_embeddings_cache(cf, chunks, embeddings, textbook_hash, name, save) ==
    [exc |-> IF save = "ok" THEN "none" ELSE "OSError",
     cache_file |-> SavedFile(cf, chunks, embeddings, textbook_hash, name, save)]

\* A variant of Generated in which a failed save ends the call.
Generated_save_fatal(chunks, embeddings, saved) ==
    [exc |-> saved.exc,
     chunks |-> IF saved.exc = "none" THEN chunks ELSE <<>>,
     embeddings |-> IF saved.exc = "none" THEN embeddings ELSE <<>>,
     cache_file |-> saved.cache_file, from_cache |-> FALSE,
     events |-> [chunked |-> TRUE, model_loads |-> 1, embedded |-> TRUE, saved |-> TRUE]]

\* The end of process() once save_embeddings_cache has ended as `saved`: its
\* exception is caught with a warning, and the generated chunks and
\* embeddings are returned.
Generated(chunks, embeddings, saved) ==
    [exc |-> "none", chunks |-> chunks, embeddings |-> embeddings,
     cache_file |-> saved.cache_file, from_cache |-> FALSE,
     events |-> [chunked |-> TRUE, model_loads |-> 1, embedded |-> TRUE, saved |-> TRUE]]

\* The part of process() after the cache check ("# Process textbook").
Regenerate(tf, cf, name, env) ==
    LET loaded == load_textbook(tf) IN
    IF loaded.exc # "none" THEN ProcessRaises(loaded.exc, cf, NoEvents)
    ELSE
    LET chunks == chunk_textbook(loaded.text, DEFAULT_CHUNK_SIZE, DEFAULT_OVERLAP)
        ev1 == [NoEvents EXCEPT !.chunked = TRUE]
    IN
    \* generate_embeddings: self._get_model(), then model.encode per batch
    IF ~env.model_ok
    THEN ProcessRaises("OSError", cf, [ev1 EXCEPT !.model_loads = 1])
    ELSE IF ~env.encode_ok
    THEN ProcessRaises("RuntimeError", cf, [ev1 EXCEPT !.model_loads = 1])
    ELSE
    LET embeddings == [i \in 1..Len(chunks) |-> EncodeText(chunks[i].text)] IN
    Generated(chunks, embeddings,
              save_embeddings_cache(cf, chunks, embeddings,
                                    calculate_textbook_hash(loaded.text), name,
                                    env.save))

\* TextbookProcessor.process(force_regenerate=False) on a new processor.
process(tf, cf, name, env) ==
    LET loaded == load_embeddings_cache(cf, name) IN
    IF loaded.exc # "none" THEN ProcessRaises(loaded.exc, cf, NoEvents)
    ELSE IF /\ loaded.cached # NoCache
            /\ load_textbook(tf).exc = "none"
            /\ calculate_textbook_hash(load_textbook(tf).text)
                    = loaded.cached[1].textbook_hash
    THEN [exc |-> "none", chunks |-> loaded.cached[1].chunks,
          embeddings |-> loaded.cached[1].embeddings, cache_file |-> cf,
          from_cache |-> TRUE, events |-> NoEvents]
    ELSE Regenerate(tf, cf, name, env)

(***************************************************************************)
(* The processor's inputs: textbook files and cache files.                 *)
(***************************************************************************)

RawTexts == {
    <<>>, <<" ">>, <<"a">>, <<"a", ".">>, <<"a", "\n", "\n", "\n", "a">>
}

TextbookFiles ==
    {[kind |-> "missing"], [kind |-> "undecodable"]}
        \cup {[kind |-> "text", content |-> c] : c \in RawTexts}

ModelNames == {DEFAULT_MODEL, "all-MiniLM-L6-v2"}

\* The hashes a cache file may record: of the texts the textbook files
\* hold, of a text they do not hold, and the empty string (the default of
\* metadata.get("textbook_hash", "")).
RecordedHashes ==
    {calculate_textbook_hash(Strip(CollapseNewlines(c))) : c \in RawTexts \ {<<>>, <<" ">>}}
        \cup {calculate_textbook_hash(<<"o", "l", "d">>), <<>>}

OldChunk(i) ==
    [text |-> <<"o", "l", "d">>, start_char |-> 0, end_char |-> 3, chunk_index |-> i]

\* A chunk object without a "text" member.
BareChunk(i) == [start_char |-> 0, end_char |-> 3, chunk_index |-> i]

\* The (chunks, embeddings) a cache file may hold: none, one, one whose
\* chunk has no text, a first or a later embedding of length zero,
\* embeddings of different lengths, and an embedding too few.
CachedContents == {
    [chunks |-> <<>>, embeddings |-> <<>>],
    [chunks |-> <<OldChunk(0)>>, embeddings |-> << <<1, 0>> >>],
    [chunks |-> <<BareChunk(0)>>, embeddings |-> << <<1, 0>> >>],
    [chunks |-> <<OldChunk(0)>>, embeddings |-> << <<>> >>],
    [chunks |-> <<OldChunk(0), OldChunk(1)>>, embeddings |-> << <<1, 0>>, <<>> >>],
    [chunks |-> <<OldChunk(0), OldChunk(1)>>, embeddings |-> << <<1, 0>>, <<1>> >>],
    [chunks |-> <<OldChunk(0), OldChunk(1)>>, embeddings |-> << <<1, 0>> >>]
}

KeySets == {
    {"chunks", "embeddings", "metadata"},
    {"embeddings", "metadata"}, {"chunks", "metadata"}, {"chunks", "embeddings"}
}

CacheMetadata ==
    [is_object : {TRUE}, model : ModelNames, textbook_hash : RecordedHashes]
        \cup {[is_object |-> FALSE, model |-> "", textbook_hash |-> <<>>]}

CacheFiles ==
    {[kind |-> "missing"], [kind |-> "invalid_json"], [kind |-> "scalar"], [kind |-> "array"]}
        \cup {[kind |-> "object", keys |-> k, chunks |-> c.chunks,
               embeddings |-> c.embeddings, metadata |-> m] :
                    k \in KeySets, c \in CachedContents, m \in CacheMetadata}

NoCall == [op |-> "none"]

ProcessorInit ==
    /\ textbook_file \in TextbookFiles
    /\ cache_file \in CacheFiles
    /\ model_name \in ModelNames
    /\ proc = NoCall

ProcessorIdle ==
    /\ textbook_file = [kind |-> "missing"]
    /\ cache_file = [kind |-> "missing"]
    /\ model_name = DEFAULT_MODEL
    /\ proc = NoCall

\* The (chunks, embeddings, textbook_hash) save_embeddings_cache is given:
\* those process() generates from a textbook, and those of no chunk.
Generations ==
    {[chunks |-> chunk_textbook(load_textbook(tf).text, DEFAULT_CHUNK_SIZE,
                                DEFAULT_OVERLAP),
      textbook_hash |-> calculate_textbook_hash(load_textbook(tf).text)] :
        tf \in {f \in TextbookFiles : load_textbook(f).exc = "none"}}
        \cup {[chunks |-> <<>>, textbook_hash |-> h] : h \in RecordedHashes}

\* generate_embeddings(chunks) with a working model
EmbeddingsOf(chunks) == [i \in 1..Len(chunks) |-> EncodeText(chunks[i].text)]

\* A call of load_textbook() on a processor.
LoadTextbook ==
    /\ proc = NoCall
    /\ proc' = [op |-> "load_textbook", out |-> load_textbook(textbook_file)]
    /\ UNCHANGED <<textbook_file, cache_file, model_name>>
    /\ UNCHANGED <<parserVars, chunkerVars, agentVars, retrieverVars, clientVars>>

\* A call of save_embeddings_cache(chunks, embeddings, textbook_hash).
SaveEmbeddingsCache ==
    /\ proc = NoCall
    /\ \E g \in Generations, save \in {"ok", "open_failed", "write_failed"} :
        \E out \in {save_embeddings_cache(cache_file, g.chunks, EmbeddingsOf(g.chunks),
                                          g.textbook_hash, model_name, save)} :
            /\ proc' = [op |-> "save", chunks |-> g.chunks,
                        embeddings |-> EmbeddingsOf(g.chunks),
                        textbook_hash |-> g.textbook_hash, out |-> out]
            /\ cache_file' = out.cache_file
    /\ UNCHANGED <<textbook_file, model_name>>
    /\ UNCHANGED <<parserVars, chunkerVars, agentVars, retrieverVars, clientVars>>

\* A call of load_embeddings_cache() on a processor, as its first call or
\* after a call of save_embeddings_cache (after_save).
LoadEmbeddingsCache ==
    /\ proc = NoCall \/ proc.op = "save"
    /\ proc' = [op |-> "load", before |-> cache_file,
                out |-> load_embeddings_cache(cache_file, model_name),
                after_save |-> IF proc.op = "save" THEN <<proc>> ELSE <<>>]
    /\ UNCHANGED <<textbook_file, cache_file, model_name>>
    /\ UNCHANGED <<parserVars, chunkerVars, agentVars, retrieverVars, clientVars>>

\* A call of process() on a new processor.
Process ==
    /\ proc = NoCall
    /\ \E env \in ProcessEnvs :
        LET out == process(textbook_file, cache_file, model_name, env) IN
        /\ proc' = [op |-> "process", before |-> cache_file, env |-> env, out |-> out]
        /\ cache_file' = out.cache_file
    /\ UNCHANGED <<textbook_file, model_name>>
    /\ UNCHANGED <<parserVars, chunkerVars, agentVars, retrieverVars, clientVars>>

(***************************************************************************)
(* agent/utils/api_client.py and agent/hip_agent.py                        *)
(***************************************************************************)

API_MAX_RETRIES == 3

\* The exceptions an API invocation may raise.  In the openai library
\* RateLimitError, AuthenticationError, BadRequestError and
\* APIConnectionError are all subclasses of APIError; "RuntimeError" stands
\* for an exception that is none of them.
ApiErrors ==
    {"RateLimitError", "APIError", "APIConnectionError", "AuthenticationError",
     "BadRequestError", "RuntimeError"}

IsAPIError(e) ==
    e \in {"RateLimitError", "APIError", "APIConnectionError", "AuthenticationError",
           "BadRequestError"}

\* A variant of RetryDecision that gives up one attempt later.
RetryDecision_one_more(e, a) ==
    IF IsAPIError(e)
    THEN IF a = API_MAX_RETRIES THEN "raise" ELSE "retry"
    ELSE "raise"

\* What call_with_retry does when attempt number a (from 0) raised e: the
\* first except clause that matches e retries, or re-raises on the last
\* attempt; an exception no clause matches propagates.
RetryDecision(e, a) ==
    IF e = "RateLimitError" \/ IsAPIError(e)
    THEN IF a = API_MAX_RETRIES - 1 THEN "raise" ELSE "retry"
    ELSE "raise"

ApiTexts == { <<>>, <<"x">>, <<" ", "b">>, <<"D">> }

\* How an invocation of the API function ends: a completion whose message
\* content is a text ("ok") or None ("no_content"), or an exception.
ApiOutcomes ==
    {[kind |-> "ok", content |-> t, error |-> "none"] : t \in ApiTexts}
        \cup {[kind |-> "no_content", content |-> <<>>, error |-> "none"]}
        \cup {[kind |-> "raise", content |-> <<>>, error |-> e] : e \in ApiErrors}

\* How a piece of get_response ends: it returns a value, raises, or (in
\* the main mode) returns what _get_response_basic returns.
Returned(v) == [act |-> "return", exc |-> "none", value |-> v]

Raised(e) == [act |-> "raise", exc |-> e, value |-> -1]

FallsBack == [act |-> "fallback", exc |-> "none", value |-> -1]

\* What get_response does with a completion, in the main and the basic
\* mode: response.choices[0].message.content.strip(), then extract_answer.
ParseCompletion(r, chs) ==
    IF r.kind = "no_content" THEN Raised("AttributeError")
    ELSE Returned(extract_answer(Strip(r.content), chs))

\* get_response's except clauses.
MainHandler(e) ==
    IF e = "AuthenticationError" THEN Returned(-1) ELSE FallsBack

\* A variant of BasicHandler that falls back once more.
BasicHandler_falls_back(e) == FallsBack

\* _get_response_basic's `except Exception: return -1`.
BasicHandler(e) == Returned(-1)

NoRetriever == <<>>

\* Retriever.__init__(chunks, embeddings); _query_embedding_cache is a
\* function from the stored query strings to their vectors, <<>> the empty
\* dict.
NewRetriever(chunks, embeddings) ==
    [chunks |-> chunks, embeddings |-> embeddings, model_loaded |-> FALSE,
     query_embedding_cache |-> <<>>]

\* Whether Retriever(chunks, embeddings) raises: the lengths differ, or
\* np.array(embeddings) is given vectors of different lengths.
RetrieverRaises(chunks, embeddings) ==
    \/ Len(chunks) # Len(embeddings)
    \/ \E i, j \in 1..Len(embeddings) :
            Len(embeddings[i].data) # Len(embeddings[j].data)

\* A variant of RetrieverFrom that builds a Retriever from whatever
\* process() left, its failure included.
RetrieverFrom_ignoring_failure(out) ==
    [retriever |->
        IF RetrieverRaises(out.chunks, out.embeddings)
        THEN NoRetriever
        ELSE <<NewRetriever(out.chunks, out.embeddings)>>,
     cache_file |-> out.cache_file,
     process_calls |-> 1,
     model_loads |-> out.events.model_loads,
     prompt_raises |-> FALSE]

\* The rest of _get_retriever() once processor.process() has ended as
\* `out`: a Retriever is built from what it returned; any exception leaves
\* self._retriever None.
RetrieverFrom(out) ==
    [retriever |->
        IF out.exc # "none" \/ RetrieverRaises(out.chunks, out.embeddings)
        THEN NoRetriever
        ELSE <<NewRetriever(out.chunks, out.embeddings)>>,
     cache_file |-> out.cache_file,
     process_calls |-> 1,
     model_loads |-> out.events.model_loads,
     prompt_raises |-> FALSE]

\* HIPAgent._get_retriever(): the retriever after the call, with the call's
\* effects outside the agent.
get_retriever(r, tf, cf, env) ==
    IF r # NoRetriever
    THEN [retriever |-> r, cache_file |-> cf, process_calls |-> 0, model_loads |-> 0,
          prompt_raises |-> FALSE]
    ELSE RetrieverFrom(process(tf, cf, DEFAULT_MODEL, env))

\* What a query meets outside the program: whether the Retriever's
\* SentenceTransformer constructor and model.encode succeed.
QueryEnvs == [model_ok : BOOLEAN, encode_ok : BOOLEAN]

\* A variant of ZeroVector that fills the substitute vector with ones.
ZeroVector_ones(r) ==
    [i \in 1..(IF Len(r.embeddings) > 0 THEN Len(r.embeddings[1].data) ELSE 384) |-> 1]

\* np.zeros(emb_dim), emb_dim the length of the first chunk embedding, 384
\* without one.
ZeroVector(r) ==
    [i \in 1..(IF Len(r.embeddings) > 0 THEN Len(r.embeddings[1].data) ELSE 384) |-> 0]

\* self._query_embedding_cache[query] = embedding
Stored(memo, q, embedding) ==
    [k \in DOMAIN memo \cup {q} |-> IF k = q THEN embedding ELSE memo[k]]

\* A variant of get_query_embedding that also stores the zero vector it
\* falls back on.
get_query_embedding_storing_fallback(r, q, env) ==
    IF q \in DOMAIN r.query_embedding_cache
    THEN [retriever |-> r, model_loads |-> 0, vec |-> r.query_embedding_cache[q]]
    ELSE IF ~r.model_loaded /\ ~env.model_ok
    THEN [retriever |-> [r EXCEPT !.query_embedding_cache = Stored(@, q, ZeroVector(r))],
          model_loads |-> 1, vec |-> ZeroVector(r)]
    ELSE IF ~env.encode_ok
    THEN [retriever |-> [r EXCEPT !.model_loaded = TRUE,
                                  !.query_embedding_cache = Stored(@, q, ZeroVector(r))],
          model_loads |-> IF r.model_loaded THEN 0 ELSE 1,
          vec |-> ZeroVector(r)]
    ELSE [retriever |-> [r EXCEPT !.model_loaded = TRUE,
                                  !.query_embedding_cache =
                                        Stored(@, q, EncodeText(q).data)],
          model_loads |-> IF r.model_loaded THEN 0 ELSE 1,
          vec |-> EncodeText(q).data]

\* Retriever._get_query_embedding(query): the retriever after the call and
\* the constructor runs it made.  A stored query needs no model; otherwise
\* _get_model() constructs the model if none is held, and a failure of the
\* constructor or of encode is caught and stores nothing.
get_query_embedding(r, q, env) ==
    IF q \in DOMAIN r.query_embedding_cache
    THEN [retriever |-> r, model_loads |-> 0, vec |-> r.query_embedding_cache[q]]
    ELSE IF ~r.model_loaded /\ ~env.model_ok
    THEN [retriever |-> r, model_loads |-> 1, vec |-> ZeroVector(r)]
    ELSE IF ~env.encode_ok
    THEN [retriever |-> [r EXCEPT !.model_loaded = TRUE],
          model_loads |-> IF r.model_loaded THEN 0 ELSE 1,
          vec |-> ZeroVector(r)]
    ELSE [retriever |-> [r EXCEPT !.model_loaded = TRUE,
                                  !.query_embedding_cache =
                                        Stored(@, q, EncodeText(q).data)],
          model_loads |-> IF r.model_loaded THEN 0 ELSE 1,
          vec |-> EncodeText(q).data]

\* np.dot of two vectors of one length
RECURSIVE Dot(_, _)
Dot(a, b) == IF a = <<>> THEN 0 ELSE a[1] * b[1] + Dot(Tail(a), Tail(b))

\* The cosine similarity _find_top_k gives embedding e for query vector v
\* is SimNum/sqrt(SimDen) (over the norm of v, the same for every e), and
\* 0.0 where a norm is zero.
SimNum(e, v) == IF Dot(e, e) = 0 \/ Dot(v, v) = 0 THEN 0 ELSE Dot(e, v)

SimDen(e, v) == IF Dot(e, e) = 0 \/ Dot(v, v) = 0 THEN 1 ELSE Dot(e, e)

\* similarities[i]: the exact value num / sqrt(den), with den > 0.
Similarity(e, v) ==
    [num |-> SimNum(e, v),
     den |-> SimDen(e, v) * (IF Dot(v, v) = 0 THEN 1 ELSE Dot(v, v))]

\* x * |x|, which orders as x does.
Signed(x) == IF x < 0 THEN 0 - x * x ELSE x * x

\* a < b for two similarities.
ScoreLess(a, b) == Signed(a.num) * b.den < Signed(b.num) * a.den

SimGreater(e1, e2, v) == ScoreLess(Similarity(e2, v), Similarity(e1, v))

\* similarity > RAG_SIMILARITY_THRESHOLD, which is 0.3
AboveThreshold(sim) == sim.num > 0 /\ 100 * sim.num * sim.num > 9 * sim.den

SimilarityAboveThreshold(e, v) == AboveThreshold(Similarity(e, v))

RAG_TOP_K_RETRIEVE == 5
RAG_TOP_K_USE == 3

\* np.argsort(similarities)[::-1]: the positions by descending similarity,
\* of equal similarities the later position first.
ArgSortDescending(sims) ==
    LET n == Len(sims)
        Before(j, i) == \/ ScoreLess(sims[i], sims[j])
                        \/ ~ScoreLess(sims[j], sims[i]) /\ j > i
        Rank(i) == Cardinality({j \in 1..n : Before(j, i)})
    IN  [p \in 1..n |-> CHOOSE i \in 1..n : Rank(i) = p - 1]

\* The slice seq[:k]: the first k elements, all but the last -k for k < 0.
SliceTo(seq, k) ==
    IF k >= 0
    THEN SubSeq(seq, 1, IF k < Len(seq) THEN k ELSE Len(seq))
    ELSE SubSeq(seq, 1, Max(Len(seq) + k, 0))

\* The (index, similarity) pairs for the positions `order`.
PairsOf(order, sims) ==
    [p \in 1..Len(order) |-> [index |-> order[p] - 1, similarity |-> sims[order[p]]]]

\* Retriever._find_top_k(query_embedding, top_k) on the corpus `embeddings`.
\* np.dot raises ValueError for vectors of another length than the corpus's,
\* and for a corpus without embeddings, whose array has one axis.
find_top_k(embeddings, v, top_k) ==
    IF \/ embeddings = <<>>
       \/ \E i \in 1..Len(embeddings) : Len(embeddings[i].data) # Len(v)
    THEN [exc |-> "ValueError", pairs |-> <<>>]
    ELSE [exc |-> "none",
          pairs |-> PairsOf(SliceTo(ArgSortDescending(
                                [i \in 1..Len(embeddings) |->
                                    Similarity(embeddings[i].data, v)]), top_k),
                            [i \in 1..Len(embeddings) |->
                                    Similarity(embeddings[i].data, v)])]

\* The result list built from _find_top_k's pairs: a copy of each chunk
\* with its similarity; [] when an exception was caught.
ResultsOf(chunks, top) ==
    IF top.exc # "none" THEN <<>>
    ELSE [p \in 1..Len(top.pairs) |->
            [chunk |-> chunks[top.pairs[p].index + 1],
             index |-> top.pairs[p].index,
             similarity |-> top.pairs[p].similarity]]

\* The try statement of retrieve_relevant_chunks once the query vector is v.
RankedResults(r, v, top_k) ==
    ResultsOf(r.chunks,
              find_top_k(r.embeddings, v,
                         IF top_k < Len(r.chunks) THEN top_k ELSE Len(r.chunks)))

\* The filter of _retrieve_context: similarity > RAG_SIMILARITY_THRESHOLD.
FilterRelevant(results) ==
    SelectSeq(results, LAMBDA x : AboveThreshold(x.similarity))

\* retrieved_chunks[:max_chunks] of format_context_section
\* A variant of ContextUsed that takes every chunk it is given.
ContextUsed_uncapped(retrieved) == retrieved

ContextUsed(retrieved) == SliceTo(retrieved, RAG_TOP_K_USE)

\* The chunks whose text format_context_section puts into the prompt, by
\* position in the corpus.
ContextChunks(r, v) ==
    {x.index + 1 : x \in
        {ContextUsed(FilterRelevant(RankedResults(r, v, RAG_TOP_K_RETRIEVE)))[p] :
            p \in 1..Len(ContextUsed(FilterRelevant(
                            RankedResults(r, v, RAG_TOP_K_RETRIEVE))))}}

\* Whether _build_prompt raises: format_context_section reads chunk['text']
\* of every chunk it is given, a KeyError where the chunk has no such member.
build_prompt_raises(r, used) == \E i \in used : "text" \notin DOMAIN r.chunks[i]

\* The rest of _retrieve_context(question) once _get_retriever() has ended
\* as `got`, and _build_prompt on what it returns: without a retriever it
\* returns []; otherwise the query is embedded and the chunks are ranked.
QueryWith(got, emb) ==
    [got EXCEPT !.retriever = <<emb.retriever>>,
                !.model_loads = @ + emb.model_loads,
                !.prompt_raises =
                    build_prompt_raises(emb.retriever,
                                        ContextChunks(emb.retriever, emb.vec))]

Retrieve(got, q, qenv) ==
    IF got.retriever = NoRetriever THEN got
    ELSE QueryWith(got, get_query_embedding(got.retriever[1], q, qenv))

\* HIPAgent._retrieve_context(question) as far as it changes state, and
\* whether _build_prompt raises on the chunks it returns.
retrieve_context(r, q, tf, cf, penv, qenv) ==
    Retrieve(get_retriever(r, tf, cf, penv), q, qenv)

(***************************************************************************)
(* The agent's inputs and actions.                                         *)
(***************************************************************************)

MaxCalls == 2

Questions == { <<>>, <<" ">>, <<"q">> }

\* Choice lists of 1 to MAX_CHOICES + 1 texts.
AgentChoiceLists == {SubSeq(ChoicePool, 1, n) : n \in 1..(MAX_CHOICES + 1)}

\* The textbook files an agent may find.
AgentTextbookFiles ==
    {[kind |-> "missing"], [kind |-> "text", content |-> <<"a">>],
     [kind |-> "text", content |-> <<"a", ".">>]}

\* The cache files an agent may find: files that are no records, records
\* of the agent's model for the textbook "a", and one for an older textbook.
AgentCacheFiles ==
    {cf \in CacheFiles :
        cf.kind = "object" =>
            /\ {"chunks", "embeddings", "metadata"} \subseteq cf.keys
            /\ cf.metadata.is_object
            /\ cf.metadata.model = DEFAULT_MODEL
            /\ \/ cf.metadata.textbook_hash = calculate_textbook_hash(<<"a">>)
               \/ /\ cf.metadata.textbook_hash
                        = calculate_textbook_hash(<<"o", "l", "d">>)
                  /\ cf.chunks = <<OldChunk(0)>>
                  /\ cf.embeddings = << <<1, 0>> >>}

NoOutcome == Returned(-1)

AgentInit ==
    /\ textbook_file \in AgentTextbookFiles
    /\ cache_file \in AgentCacheFiles
    /\ model_name = DEFAULT_MODEL
    /\ proc = NoCall
    /\ retriever = NoRetriever
    /\ pc = "idle"
    /\ attempt = 0
    /\ cur_question = <<>>
    /\ cur_choices = <<>>
    /\ outcome = NoOutcome
    /\ calls = 0
    /\ process_calls = 0
    /\ model_loads = 0
    /\ api_calls = 0

AgentIdle ==
    /\ retriever = NoRetriever
    /\ pc = "idle"
    /\ attempt = 0
    /\ cur_question = <<>>
    /\ cur_choices = <<>>
    /\ outcome = NoOutcome
    /\ calls = 0
    /\ process_calls = 0
    /\ model_loads = 0
    /\ api_calls = 0

\* validate_question(question): whether the question is accepted.
validate_question(q) == ~(q = <<>> \/ Strip(q) = <<>>)

\* A variant of validate_answer_choices without the maximum.
validate_answer_choices_no_maximum(chs) == ~(chs = <<>> \/ Len(chs) < MIN_CHOICES)

\* validate_answer_choices(answer_choices): whether the list is accepted.
validate_answer_choices(chs) ==
    IF chs = <<>> \/ Len(chs) < MIN_CHOICES THEN FALSE
    ELSE IF Len(chs) > MAX_CHOICES THEN FALSE
    ELSE TRUE

\* get_response returns or raises.
Finish(o) ==
    /\ outcome' = o
    /\ pc' = "idle"
    /\ attempt' = 0
    /\ cur_question' = <<>>
    /\ cur_choices' = <<>>

\* get_response(q, chs) up to its first API invocation: the validation, the
\* retrieval and the prompt, which is built outside the try statement.
\* cur_question and cur_choices keep the arguments of a call that the
\* validation turned down.
GetResponse ==
    /\ pc = "idle"
    /\ calls < MaxCalls
    /\ \E q \in Questions, chs \in AgentChoiceLists :
        /\ calls' = calls + 1
        /\ api_calls' = 0
        /\ attempt' = 0
        /\ IF ~validate_question(q) \/ ~validate_answer_choices(chs)
           THEN /\ outcome' = Returned(-1)
                /\ pc' = "idle"
                /\ cur_question' = q
                /\ cur_choices' = chs
                /\ UNCHANGED <<retriever, cache_file, process_calls, model_loads>>
           ELSE \E penv \in ProcessEnvs, qenv \in QueryEnvs :
                \E got \in {retrieve_context(retriever, q, textbook_file,
                                              cache_file, penv, qenv)} :
                    /\ retriever' = got.retriever
                    /\ cache_file' = got.cache_file
                    /\ process_calls' = process_calls + got.process_calls
                    /\ model_loads' = model_loads + got.model_loads
                    /\ IF got.prompt_raises
                       THEN Finish(Raised("KeyError"))
                       ELSE /\ pc' = "main"
                            /\ cur_question' = q
                            /\ cur_choices' = chs
                            /\ UNCHANGED outcome
    /\ UNCHANGED <<textbook_file, model_name, proc>>
    /\ UNCHANGED <<parserVars, chunkerVars, retrieverVars, clientVars>>

\* `return self._get_response_basic(question, answer_choices)`
Fallback ==
    /\ pc' = "basic"
    /\ attempt' = 0
    /\ UNCHANGED <<outcome, cur_question, cur_choices>>

\* The call of chat_completion ended with result `o` (a completion parsed,
\* or an exception) in the mode get_response is in.
MainResult(o) ==
    IF o.act = "raise" THEN MainHandler(o.exc)
    ELSE IF o.value = -1 THEN FallsBack
    ELSE o

BasicResult(o) == IF o.act = "raise" THEN BasicHandler(o.exc) ELSE o

Conclude(h) == IF h.act = "fallback" THEN Fallback ELSE Finish(h)

AfterCall(o) ==
    IF pc = "main" THEN Conclude(MainResult(o)) ELSE Finish(BasicResult(o))

\* One iteration of call_with_retry's loop: the API function is invoked and
\* returns a completion or raises.
ApiAttempt ==
    /\ pc \in {"main", "basic"}
    /\ api_calls' = api_calls + 1
    /\ \E r \in ApiOutcomes :
        IF r.kind = "raise" /\ RetryDecision(r.error, attempt) = "retry"
        THEN /\ attempt' = attempt + 1
             /\ UNCHANGED <<pc, outcome, cur_question, cur_choices>>
        ELSE AfterCall(IF r.kind = "raise" THEN Raised(r.error)
                       ELSE ParseCompletion(r, cur_choices))
    /\ UNCHANGED <<retriever, calls, process_calls, model_loads>>
    /\ UNCHANGED <<parserVars, chunkerVars, processorVars, retrieverVars, clientVars>>

(***************************************************************************)
(* agent/utils/api_client.py: a call of call_with_retry on its own, with   *)
(* the invocations of the API function and the waits it has made so far.   *)
(***************************************************************************)

NoClientCall ==
    [pc |-> "idle", attempt |-> 0, invoked |-> <<>>, slept |-> <<>>,
     result |-> NoOutcome]

ClientIdle == client = NoClientCall

\* chat_completion(prompt) enters call_with_retry with the default
\* max_retries: `for attempt in range(max_retries)`.
CallWithRetry ==
    /\ client.pc = "idle"
    /\ client' = [client EXCEPT !.pc = "calling"]
    /\ UNCHANGED <<parserVars, chunkerVars, processorVars, agentVars, retrieverVars>>

\* What call_with_retry gives its caller when an invocation ended as r
\* and is not retried.
ClientResult(r) ==
    IF r.kind = "raise" THEN Raised(r.error)
    ELSE [act |-> "return", exc |-> "none", value |-> r]

\* One iteration of the loop: api_call_func() returns, or raises and the
\* matching except clause re-raises or sleeps before the next iteration.
Invoke ==
    /\ client.pc = "calling"
    /\ \E r \in ApiOutcomes :
        client' =
            IF r.kind = "raise" /\ RetryDecision(r.error, client.attempt) = "retry"
            THEN [client EXCEPT !.attempt = @ + 1,
                                !.invoked = Append(@, r),
                                !.slept = Append(@, client.attempt)]
            ELSE [client EXCEPT !.pc = "done",
                                !.invoked = Append(@, r),
                                !.result = ClientResult(r)]
    /\ UNCHANGED <<parserVars, chunkerVars, processorVars, agentVars, retrieverVars>>

(***************************************************************************)
(* agent/retriever.py: calls on a Retriever, and the context               *)
(* HIPAgent._retrieve_context and format_context_section make of them.     *)
(***************************************************************************)

\* A variant of Ranked that ranks nothing when the query vector is all zero.
Ranked_empty_for_zero_query(emb, top_k) ==
    [retriever |-> emb.retriever, model_loads |-> emb.model_loads,
     exc |-> "none", vec |-> emb.vec,
     results |-> IF \A i \in 1..Len(emb.vec) : emb.vec[i] = 0
                 THEN <<>>
                 ELSE RankedResults(emb.retriever, emb.vec, top_k)]

\* The try statement of retrieve_relevant_chunks, the query embedded as emb.
Ranked(emb, top_k) ==
    [retriever |-> emb.retriever, model_loads |-> emb.model_loads,
     exc |-> "none", vec |-> emb.vec,
     results |-> RankedResults(emb.retriever, emb.vec, top_k)]

\* Retriever.retrieve_relevant_chunks(query, top_k): the retriever after the
\* call, the query vector it ranked with (<<>>: it ranked nothing) and the
\* result list.  Every exception after the two early returns is caught.
retrieve_relevant_chunks(r, query, top_k, env) ==
    IF query = <<>> \/ Strip(query) = <<>> \/ top_k <= 0
    THEN [retriever |-> r, model_loads |-> 0, exc |-> "none", vec |-> <<>>,
          results |-> <<>>]
    ELSE Ranked(get_query_embedding(r, query, env), top_k)

\* Retriever._find_top_k called with query vector v and top_k = k.
FoundTopK(v, k, out) == [op |-> "find_top_k", vec |-> v, top_k |-> k, out |-> out]

\* Retriever.retrieve_relevant_chunks(query, top_k) called on `before`.
Retrieved(before, query, k, env, out) ==
    [op |-> "retrieve", before |-> before, query |-> query, top_k |-> k,
     env |-> env, out |-> out]

\* The same as a later call on the retriever, `earlier` calls before it.
RetrievedAgain(earlier, before, query, k, env, out) ==
    [op |-> "retrieve_again", earlier |-> earlier, before |-> before,
     query |-> query, top_k |-> k, env |-> env, out |-> out]

\* HIPAgent._retrieve_context(question) on an agent that holds the retriever
\* `before`, and the chunks format_context_section takes of its result.
Contexted(before, query, env, out) ==
    [op |-> "context", before |-> before, query |-> query,
     top_k |-> RAG_TOP_K_RETRIEVE, env |-> env, out |-> out,
     retrieved |-> FilterRelevant(out.results),
     context |-> ContextUsed(FilterRelevant(out.results))]

(***************************************************************************)
(* The retriever's inputs: corpora of up to MaxCorpus embeddings of two    *)
(* dimensions, a corpus of another dimension, and corpora of one more      *)
(* chunk than RAG_TOP_K_RETRIEVE.                                          *)
(***************************************************************************)

MaxCorpus == 3

CorpusVectors == { <<1, 0>>, <<1, 1>>, <<-1, 0>>, <<0, 0>> }

LongCorpora ==
    {[i \in 1..(RAG_TOP_K_RETRIEVE + 1) |-> IF i \in S THEN <<1, 1>> ELSE w] :
        S \in SUBSET (1..(RAG_TOP_K_RETRIEVE + 1)), w \in { <<1, 0>>, <<0, 0>> }}

Corpora ==
    UNION {[1..n -> CorpusVectors] : n \in 0..MaxCorpus}
        \cup { << <<1>> >> } \cup LongCorpora

CorpusChunk(i) ==
    [text |-> <<"c">>, start_char |-> 0, end_char |-> 1, chunk_index |-> i - 1]

\* Retriever(chunks, embeddings) for a corpus, before any query.
RetrieverOf(corpus) ==
    NewRetriever([i \in 1..Len(corpus) |-> CorpusChunk(i)],
                 [i \in 1..Len(corpus) |-> NpArray(corpus[i])])

RetrieverQueries == { <<" ">>, <<"q">>, <<"q", "q">> }

\* The query vectors _find_top_k is called with.
QueryVectors == { <<1, 1>>, <<0, 1>>, <<0, 0>>, <<1>> }

TopKs == (0 - 2)..(RAG_TOP_K_RETRIEVE + 2)

NoRanking == [op |-> "none"]

RetrieverIdle == rcall = NoRanking

\* A retriever that has served no query, one whose model is loaded, and one
\* that holds the embedding of the query "q".
RetrieverInit ==
    /\ \E corpus \in Corpora, held \in {"new", "loaded", "memo"} :
            retriever = << [RetrieverOf(corpus) EXCEPT
                                !.model_loaded = (held # "new"),
                                !.query_embedding_cache =
                                    IF held = "memo"
                                    THEN Stored(<<>>, <<"q">>, EncodeText(<<"q">>).data)
                                    ELSE <<>>] >>
    /\ rcall = NoRanking
    /\ pc = "idle"
    /\ attempt = 0
    /\ cur_question = <<>>
    /\ cur_choices = <<>>
    /\ outcome = NoOutcome
    /\ calls = 0
    /\ process_calls = 0
    /\ model_loads = 0
    /\ api_calls = 0

\* A call of Retriever._find_top_k(v, k).
FindTopK ==
    /\ rcall = NoRanking
    /\ \E v \in QueryVectors, k \in TopKs :
            rcall' = FoundTopK(v, k, find_top_k(retriever[1].embeddings, v, k))
    /\ UNCHANGED <<parserVars, chunkerVars, processorVars, agentVars, clientVars>>

\* A call of Retriever.retrieve_relevant_chunks(query, k).
RetrieveRelevantChunks ==
    /\ rcall = NoRanking
    /\ \E query \in RetrieverQueries, k \in TopKs, env \in QueryEnvs :
        \E out \in {retrieve_relevant_chunks(retriever[1], query, k, env)} :
            /\ rcall' = Retrieved(retriever[1], query, k, env, out)
            /\ retriever' = <<out.retriever>>
            /\ model_loads' = model_loads + out.model_loads
    /\ UNCHANGED <<pc, attempt, cur_question, cur_choices, outcome, calls,
                   process_calls, api_calls>>
    /\ UNCHANGED <<parserVars, chunkerVars, processorVars, clientVars>>

MaxQueries == 3

\* A new retriever over a corpus of at most one chunk.
MemoInit ==
    /\ RetrieverInit
    /\ Len(retriever[1].chunks) <= 1
    /\ ~retriever[1].model_loaded

\* A later call of Retriever.retrieve_relevant_chunks(query, k) on a
\* retriever that has served calls before.
RetrieveAgain ==
    /\ rcall.op \in {"retrieve", "retrieve_again"}
    /\ rcall.op = "retrieve_again" => rcall.earlier < MaxQueries - 1
    /\ \E query \in RetrieverQueries, k \in TopKs, env \in QueryEnvs :
        \E out \in {retrieve_relevant_chunks(retriever[1], query, k, env)} :
            /\ rcall' = RetrievedAgain(IF rcall.op = "retrieve" THEN 1
                                        ELSE rcall.earlier + 1,
                                        retriever[1], query, k, env, out)
            /\ retriever' = <<out.retriever>>
            /\ model_loads' = model_loads + out.model_loads
    /\ UNCHANGED <<pc, attempt, cur_question, cur_choices, outcome, calls,
                   process_calls, api_calls>>
    /\ UNCHANGED <<parserVars, chunkerVars, processorVars, clientVars>>

\* A call of HIPAgent._retrieve_context(question) on an agent that holds
\* the retriever, followed by format_context_section on its result.
RetrieveContext ==
    /\ rcall = NoRanking
    /\ \E query \in RetrieverQueries, env \in QueryEnvs :
        \E out \in {retrieve_relevant_chunks(retriever[1], query,
                                              RAG_TOP_K_RETRIEVE, env)} :
            /\ rcall' = Contexted(retriever[1], query, env, out)
            /\ retriever' = <<out.retriever>>
            /\ model_loads' = model_loads + out.model_loads
    /\ UNCHANGED <<pc, attempt, cur_question, cur_choices, outcome, calls,
                   process_calls, api_calls>>
    /\ UNCHANGED <<parserVars, chunkerVars, processorVars, clientVars>>

(***************************************************************************)
(* The specifications.                                                     *)
(***************************************************************************)

InitParser ==
    ParserInit /\ ChunkerIdle /\ ProcessorIdle /\ AgentIdle /\ RetrieverIdle /\ ClientIdle

SpecParser == InitParser /\ [][ExtractAnswer]_vars

InitChunker ==
    ChunkerInit /\ ParserIdle /\ ProcessorIdle /\ AgentIdle /\ RetrieverIdle /\ ClientIdle

SpecChunker == InitChunker /\ [][ChunkTextbook]_vars

InitProcessor ==
    ProcessorInit /\ ParserIdle /\ ChunkerIdle /\ AgentIdle /\ RetrieverIdle /\ ClientIdle

NextProcessor == LoadTextbook \/ SaveEmbeddingsCache \/ LoadEmbeddingsCache \/ Process

SpecProcessor == InitProcessor /\ [][NextProcessor]_vars

InitAgent == AgentInit /\ ParserIdle /\ ChunkerIdle /\ RetrieverIdle /\ ClientIdle

NextAgent == GetResponse \/ ApiAttempt

SpecAgent == InitAgent /\ [][NextAgent]_vars

\* An agent whose textbook is absent, undecodable, empty, blank or the
\* text "a", and whose cache file is absent, unreadable, or a record made for the textbook "a".
AnsweringInit ==
    /\ AgentIdle
    /\ textbook_file \in {f \in TextbookFiles : f.kind = "text" => Len(f.content) <= 1}
    /\ cache_file \in
            {[kind |-> "missing"], [kind |-> "invalid_json"],
             CacheData(<<OldChunk(0)>>, <<NpArray(<<1, 0>>)>>,
                       calculate_textbook_hash(<<"a">>), DEFAULT_MODEL)}
    /\ model_name = DEFAULT_MODEL
    /\ proc = NoCall

InitAnswering == AnsweringInit /\ ParserIdle /\ ChunkerIdle /\ RetrieverIdle /\ ClientIdle

SpecAnswering == InitAnswering /\ [][NextAgent]_vars

InitMemo == MemoInit /\ ParserIdle /\ ChunkerIdle /\ ProcessorIdle /\ ClientIdle

NextMemo == RetrieveRelevantChunks \/ RetrieveAgain

SpecMemo == InitMemo /\ [][NextMemo]_vars

InitClient ==
    ClientIdle /\ ParserIdle /\ ChunkerIdle /\ ProcessorIdle /\ AgentIdle /\ RetrieverIdle

NextClient == CallWithRetry \/ Invoke

SpecClient == InitClient /\ [][NextClient]_vars

InitRetriever == RetrieverInit /\ ParserIdle /\ ChunkerIdle /\ ProcessorIdle /\ ClientIdle

NextRetriever == FindTopK \/ RetrieveRelevantChunks \/ RetrieveContext

SpecRetriever == InitRetriever /\ [][NextRetriever]_vars

\* C1: chunk_textbook drops no source content: every whitespace-delimited
\* word of a non-empty text occurs in the text of at least one chunk.
C1_NoContentDropped ==
    (chunk_result # <<>> /\ text # <<>>) =>
        \A k \in 1..Len(SplitWords(text)) :
            \E c \in 1..Len(chunk_result[1]) :
                IsSubstring(SplitWords(text)[k], chunk_result[1][c].text)

\* C5: every emitted chunk is at most chunk_size * 4 characters long.
C5_ChunksWithinTarget ==
    chunk_result # <<>> =>
        \A c \in 1..Len(chunk_result[1]) :
            Len(chunk_result[1][c].text) <= chunk_size * CHARS_PER_TOKEN
(***************************************************************************)
(* Cache files, stated on the file itself.                                 *)
(***************************************************************************)

HasAllKeys(cf) == cf.kind = "object" /\ {"chunks", "embeddings", "metadata"} \subseteq cf.keys

\* A file that is a cache record in form: a JSON object with the three
\* keys whose metadata is an object.
WellFormed(cf) == HasAllKeys(cf) /\ cf.metadata.is_object

SomeEmbeddingEmpty(cf) == \E i \in 1..Len(cf.embeddings) : Len(cf.embeddings[i]) = 0

Ragged(cf) ==
    \E i, j \in 1..Len(cf.embeddings) : Len(cf.embeddings[i]) # Len(cf.embeddings[j])

\* The content of section 4.2's "structurally malformed", with C6's list.
Malformed(cf) ==
    \/ cf.kind \in {"invalid_json", "scalar", "array"}
    \/ cf.kind = "object" /\ (~WellFormed(cf) \/ Ragged(cf))

TextbookLoads == load_textbook(textbook_file).exc = "none"

CurrentText == load_textbook(textbook_file).text

CurrentHash == calculate_textbook_hash(CurrentText)

\* The chunks and embeddings of the textbook as it is now.
FreshChunks == chunk_textbook(CurrentText, DEFAULT_CHUNK_SIZE, DEFAULT_OVERLAP)

FreshEmbeddings == [i \in 1..Len(FreshChunks) |-> EncodeText(FreshChunks[i].text)]

ReturnedCached ==
    /\ proc.out.exc = "none"
    /\ proc.out.chunks = proc.before.chunks
    /\ \A i \in 1..Len(proc.out.embeddings) :
            ToList(proc.out.embeddings[i]) = proc.before.embeddings[i]
    /\ Len(proc.out.embeddings) = Len(proc.before.embeddings)
    /\ proc.out.events = NoEvents
    /\ cache_file = proc.before

ReturnedFresh ==
    /\ proc.out.exc = "none"
    /\ proc.out.chunks = FreshChunks
    /\ proc.out.embeddings = FreshEmbeddings
    /\ proc.out.events.chunked /\ proc.out.events.embedded

Overwritten ==
    cache_file = CacheData(FreshChunks, FreshEmbeddings, CurrentHash, model_name)

\* C4: where the textbook loads, the model works and the cache file can be
\* written, process() returns the cached chunks and embeddings, without
\* chunking, embedding or writing, if and only if the cache file is a
\* structurally valid record (well-formed, no embedding of length zero) of
\* the processor's model whose textbook_hash is that of the current
\* textbook; in every other case it regenerates from the current textbook
\* and overwrites the cache file.
C4_CachedIffValidElseOverwrite ==
    (/\ proc.op = "process"
     /\ TextbookLoads
     /\ proc.env.model_ok /\ proc.env.encode_ok /\ proc.env.save = "ok")
        => IF /\ WellFormed(proc.before)
              /\ ~SomeEmbeddingEmpty(proc.before)
              /\ proc.before.metadata.model = model_name
              /\ proc.before.metadata.textbook_hash = CurrentHash
           THEN ReturnedCached
           ELSE ReturnedFresh /\ Overwritten

\* C6: for a malformed cache file, load_embeddings_cache returns None without
\* raising, and process() does not return the file's content nor fail with
\* the error of reading it: it regenerates whenever the textbook loads and
\* the model works.
C6_MalformedCacheNotSurfaced ==
    /\ (proc.op = "load" /\ Malformed(proc.before)) =>
            proc.out.exc = "none" /\ proc.out.cached = NoCache
    /\ (proc.op = "process" /\ Malformed(proc.before)) =>
            /\ ~proc.out.from_cache
            /\ (TextbookLoads /\ proc.env.model_ok /\ proc.env.encode_ok) => ReturnedFresh

\* C7: load_embeddings_cache returns None whenever any recorded embedding has
\* length zero, at any position, and whenever the recorded model is not the
\* processor's.
C7_AnyEmptyEmbeddingIsMiss ==
    (/\ proc.op = "load"
     /\ WellFormed(proc.before)
     /\ SomeEmbeddingEmpty(proc.before) \/ proc.before.metadata.model # model_name)
        => (proc.out.exc = "none" /\ proc.out.cached = NoCache)


(***************************************************************************)
(* The agent.                                                              *)
(***************************************************************************)

\* C3: get_response never propagates an exception: whenever a call has
\* ended, it ended by returning an integer (-1 when no answer is resolved).
C3_NeverRaises ==
    pc = "idle" => (outcome.act = "return" /\ outcome.value \in Int)

\* C8: over any sequence of get_response calls on one agent,
\* TextbookProcessor.process is invoked at most once, whether the first
\* initialisation succeeded or failed.
C8_ProcessAtMostOnce == process_calls <= 1

\* C9: across the corpus embedding and all query embeddings, the
\* SentenceTransformer constructor runs at most once, also after a load
\* attempt has failed.
C9_ModelLoadedAtMostOnce == model_loads <= 1


(***************************************************************************)
(* The cue strategy.                                                       *)
(***************************************************************************)

\* The cue patterns that match somewhere in s with the captured letter
\* standing alone: no word character follows it.
StandaloneCues(s) ==
    {k \in 1..Len(COT_PATTERNS) :
        ReSearch(COT_PATTERNS[k] \o <<WordBoundary>>, s) # ""}

\* What strategies 2 to 4 give when the cue strategy gives nothing.
ResultWithoutCue(s, choices) ==
    IF Standalone(s, LettersAD) # {}
        THEN LetterIndex(s[Min(Standalone(s, LettersAD))])
    ELSE IF Standalone(s, Digits03) # {}
        THEN DigitValue(s[Min(Standalone(s, Digits03))])
    ELSE IF ChoicesOccurring(s, choices) # {}
        THEN Min(ChoicesOccurring(s, choices)) - 1
    ELSE -1

\* C11: the cue strategy matches only when a cue is followed by a single
\* standalone letter A-D: for a response in which no cue is followed by a
\* standalone letter, extract_answer returns what the other strategies give.
C11_CueNeedsStandaloneLetter ==
    (parsed # <<>> /\ ~IsBlank(response_text) /\ StandaloneCues(response_text) = {})
        => parsed[1] = ResultWithoutCue(response_text, answer_choices)


(***************************************************************************)
(* The chunk list.                                                         *)
(***************************************************************************)

\* The trailing n characters of s.
Trailing(s, n) == SubSeq(s, Len(s) - n + 1, Len(s))

\* The number of characters two consecutive chunks share: min(overlap * 4,
\* len(previous.text)).
SharedLen(prev) ==
    IF overlap * CHARS_PER_TOKEN < Len(prev.text)
    THEN overlap * CHARS_PER_TOKEN ELSE Len(prev.text)

\* C12: for every pair of consecutive chunks, the later chunk's text begins
\* with the trailing min(overlap * 4, len(previous.text)) characters of the
\* previous chunk's text.
C12_OverlapIsVerbatim ==
    chunk_result # <<>> =>
        \A c \in 1..(Len(chunk_result[1]) - 1) :
            LET prev == chunk_result[1][c]
                next == chunk_result[1][c + 1]
            IN  /\ Len(next.text) >= SharedLen(prev)
                /\ SubSeq(next.text, 1, SharedLen(prev))
                        = Trailing(prev.text, SharedLen(prev))

\* Two consecutive chunks with a positive overlap, the previous one longer
\* than the shared characters, which are other than its leading ones.
C12_Witness ==
    /\ chunk_result # <<>>
    /\ overlap > 0
    /\ \E c \in 1..(Len(chunk_result[1]) - 1) :
            LET prev == chunk_result[1][c]
                next == chunk_result[1][c + 1]
            IN  /\ Len(prev.text) > SharedLen(prev)
                /\ SubSeq(next.text, 1, SharedLen(prev))
                        = Trailing(prev.text, SharedLen(prev))
                /\ Trailing(prev.text, SharedLen(prev))
                        # SubSeq(prev.text, 1, SharedLen(prev))


\* C13: for every chunk, [start_char, end_char) is the chunk's span in the
\* text: 0 <= start_char <= end_char <= len(text), and
\* text[start_char:end_char] is the chunk's text.
C13_SpanIsChunkText ==
    chunk_result # <<>> =>
        \A c \in 1..Len(chunk_result[1]) :
            LET ch == chunk_result[1][c] IN
            /\ 0 <= ch.start_char
            /\ ch.start_char <= ch.end_char
            /\ ch.end_char <= Len(text)
            /\ SubSeq(text, ch.start_char + 1, ch.end_char) = ch.text

\* C14: chunk_index equals the position in the returned list: 0 for the
\* first chunk and one more for each following chunk.
C14_IndexIsPosition ==
    chunk_result # <<>> =>
        \A c \in 1..Len(chunk_result[1]) : chunk_result[1][c].chunk_index = c - 1

\* A list of at least three chunks from a text of several paragraphs, one
\* of the chunks holding no paragraph break.
C14_Witness ==
    /\ chunk_result # <<>>
    /\ Len(chunk_result[1]) >= 3
    /\ chunk_result[1][3].chunk_index = 2
    /\ Len(SplitParagraphs(text)) >= 2
    /\ \E c \in 1..Len(chunk_result[1]) :
            \A i \in 1..Len(chunk_result[1][c].text) : chunk_result[1][c].text[i] # "\n"

\* C15: chunk_textbook on an empty or whitespace-only text fails with an
\* error: it returns no chunk sequence, in particular not the empty list.
C15_EmptyTextFails ==
    (chunk_result # <<>> /\ IsBlank(text)) => chunk_result[1] # <<>>

(***************************************************************************)
(* Statements about the retriever.                                         *)
(***************************************************************************)

\* The number of chunks of the retriever the call was made on.
CorpusSize == Len(retriever[1].chunks)

\* min(k, corpus_size)
Clamped(k) == IF k < CorpusSize THEN k ELSE CorpusSize

\* The scores of a list of pairs or results never increase along the list.
NonIncreasing(list) ==
    \A p \in 1..(Len(list) - 1) :
        list[p].similarity.num * list[p].similarity.num
                * (IF list[p].similarity.num < 0 THEN 0 - 1 ELSE 1)
                * list[p + 1].similarity.den
            >= list[p + 1].similarity.num * list[p + 1].similarity.num
                * (IF list[p + 1].similarity.num < 0 THEN 0 - 1 ELSE 1)
                * list[p].similarity.den

\* C16: Retriever._find_top_k returns, for every query vector, corpus and
\* integer k, pairs sorted by non-increasing score, min(k, corpus_size) of
\* them when k > 0 and none when k <= 0, negative k included.
C16_TopKLengthAndOrder ==
    (rcall.op = "find_top_k" /\ rcall.out.exc = "none") =>
        /\ Len(rcall.out.pairs) = (IF rcall.top_k > 0 THEN Clamped(rcall.top_k) ELSE 0)
        /\ NonIncreasing(rcall.out.pairs)

\* The embedding of the chunk at a 0-based index has zero norm.
ZeroNorm(index) ==
    \A i \in 1..Len(retriever[1].embeddings[index + 1].data) :
        retriever[1].embeddings[index + 1].data[i] = 0

\* C17: in the ranking of Retriever._find_top_k a chunk whose embedding has
\* zero norm is never placed ahead of a chunk whose embedding has non-zero
\* norm, whatever the query vector.
C17_ZeroNormNeverAhead ==
    (rcall.op = "find_top_k" /\ rcall.out.exc = "none") =>
        \A p \in 1..Len(rcall.out.pairs), q \in 1..Len(rcall.out.pairs) :
            p < q => ~(ZeroNorm(rcall.out.pairs[p].index)
                        /\ ~ZeroNorm(rcall.out.pairs[q].index))

\* The call embedded its query and the model failed: the query passed the
\* two early returns, was not stored, and the constructor or encode raised.
EmbeddingFailed ==
    /\ rcall.op \in {"retrieve", "context"}
    /\ rcall.top_k > 0
    /\ \E i \in 1..Len(rcall.query) : rcall.query[i] # " "
    /\ rcall.query \notin DOMAIN rcall.before.query_embedding_cache
    /\ \/ ~rcall.before.model_loaded /\ ~rcall.env.model_ok
       \/ ~rcall.env.encode_ok

\* The embedding dimension _get_query_embedding falls back on.
CorpusDimension ==
    IF Len(rcall.before.embeddings) > 0
    THEN Len(rcall.before.embeddings[1].data)
    ELSE 384

\* C18: when the embedding model fails on a query,
\* retrieve_relevant_chunks does not raise, the query vector is a zero
\* vector of the corpus's embedding dimension (384 for an empty corpus),
\* every returned result has similarity exactly 0, and _retrieve_context
\* passes no chunk to the prompt.
C18_EmbeddingFailureGivesZeroVector ==
    EmbeddingFailed =>
        /\ rcall.out.exc = "none"
        /\ Len(rcall.out.vec) = CorpusDimension
        /\ \A i \in 1..Len(rcall.out.vec) : rcall.out.vec[i] = 0
        /\ \A p \in 1..Len(rcall.out.results) :
                rcall.out.results[p].similarity.num = 0
        /\ rcall.op = "context" => rcall.retrieved = <<>> /\ rcall.context = <<>>

C18_Witness ==
    /\ EmbeddingFailed
    /\ rcall.op = "context"
    /\ Len(rcall.out.results) > 1

\* Ranking raised inside the call: there is a query vector, and the corpus
\* is empty or holds an embedding of another length.
RankingFailed ==
    /\ rcall.op \in {"retrieve", "context"}
    /\ rcall.out.vec # <<>>
    /\ \/ rcall.before.embeddings = <<>>
       \/ \E i \in 1..Len(rcall.before.embeddings) :
            Len(rcall.before.embeddings[i].data) # Len(rcall.out.vec)

\* C19: a failure during query embedding or during ranking inside
\* retrieve_relevant_chunks makes the call return an empty result sequence,
\* and no exception propagates.
C19_FailureGivesEmpty ==
    (rcall.op = "retrieve" /\ (EmbeddingFailed \/ RankingFailed)) =>
        rcall.out.exc = "none" /\ rcall.out.results = <<>>

\* C19, amended: no exception propagates from retrieve_relevant_chunks; a
\* ranking failure gives an empty result, while a failure of the embedding
\* alone gives min(top_k, corpus_size) results, each with similarity 0.
C19_RankingFailureGivesEmpty ==
    rcall.op = "retrieve" =>
        /\ rcall.out.exc = "none"
        /\ RankingFailed => rcall.out.results = <<>>
        /\ (EmbeddingFailed /\ ~RankingFailed) =>
                /\ Len(rcall.out.results) = Clamped(rcall.top_k)
                /\ \A p \in 1..Len(rcall.out.results) :
                        rcall.out.results[p].similarity.num = 0

C19_Witness ==
    /\ rcall.op = "retrieve"
    /\ EmbeddingFailed
    /\ ~RankingFailed
    /\ rcall.out.results # <<>>

\* The similarity of a result is strictly greater than
\* RAG_SIMILARITY_THRESHOLD, 0.3: num / sqrt(den) > 3 / 10.
Relevant(x) ==
    x.similarity.num > 0
        /\ 100 * x.similarity.num * x.similarity.num > 9 * x.similarity.den

\* The fetched results that are relevant, in the order they were fetched.
RelevantFetched == SelectSeq(rcall.out.results, Relevant)

\* C20: the context of the main prompt consists only of fetched chunks
\* whose similarity is strictly greater than RAG_SIMILARITY_THRESHOLD, at
\* most RAG_TOP_K_USE of them, the first in descending-similarity order of
\* the at most RAG_TOP_K_RETRIEVE fetched, filtered before they are capped.
C20_ContextIsFilteredThenCapped ==
    rcall.op = "context" =>
        /\ Len(rcall.out.results) <= RAG_TOP_K_RETRIEVE
        /\ NonIncreasing(rcall.out.results)
        /\ \A p \in 1..Len(rcall.context) : Relevant(rcall.context[p])
        /\ Len(rcall.context) <= RAG_TOP_K_USE
        /\ Len(rcall.context) =
                (IF Len(RelevantFetched) < RAG_TOP_K_USE
                 THEN Len(RelevantFetched) ELSE RAG_TOP_K_USE)
        /\ rcall.context = SubSeq(RelevantFetched, 1, Len(rcall.context))

C20_Witness ==
    /\ rcall.op = "context"
    /\ Len(rcall.before.chunks) > RAG_TOP_K_RETRIEVE
    /\ Len(rcall.out.results) > Len(RelevantFetched)
    /\ Len(RelevantFetched) > RAG_TOP_K_USE
    /\ Len(rcall.context) = RAG_TOP_K_USE

\* The paragraphs of the text that chunk_textbook must split: longer than
\* the target size and made of more than one word.
LongParagraphs ==
    {k \in 1..Len(SplitParagraphs(text)) :
        /\ Len(Strip(SplitParagraphs(text)[k])) > chunk_size * CHARS_PER_TOKEN
        /\ Len(SplitWords(SplitParagraphs(text)[k])) > 1}

EmbeddingAborted ==
    /\ proc.op = "process"
    /\ proc.out.events.chunked
    /\ ~proc.env.model_ok \/ ~proc.env.encode_ok

\* C22: if embedding a batch fails during corpus generation,
\* generate_embeddings and process() abort with the underlying error,
\* save_embeddings_cache is never reached and the cache file is left
\* exactly as it was before the call.
C22_FailedEmbeddingWritesNothing ==
    EmbeddingAborted =>
        /\ proc.out.exc = (IF proc.env.model_ok THEN "RuntimeError" ELSE "OSError")
        /\ ~proc.out.events.embedded
        /\ ~proc.out.events.saved
        /\ proc.out.chunks = <<>> /\ proc.out.embeddings = <<>>
        /\ proc.out.cache_file = proc.before
        /\ cache_file = proc.before

C22_Witness ==
    /\ EmbeddingAborted
    /\ proc.env.model_ok
    /\ WellFormed(proc.before)
    /\ proc.before.chunks # <<>>

\* process() reached save_embeddings_cache and the write failed.
SaveFailed ==
    /\ proc.op = "process"
    /\ proc.out.events.saved
    /\ proc.env.save # "ok"

\* C23: when save_embeddings_cache raises after a successful generation,
\* process() raises nothing and returns the freshly generated chunks and
\* embeddings, equal in length and content to what was generated.
C23_SaveFailureIsNotFatal ==
    SaveFailed =>
        /\ proc.out.exc = "none"
        /\ proc.out.chunks = FreshChunks
        /\ proc.out.embeddings = FreshEmbeddings
        /\ Len(proc.out.chunks) = Len(proc.out.embeddings)

C23_Witness ==
    /\ SaveFailed
    /\ proc.env.save = "write_failed"
    /\ proc.out.chunks # <<>>
    /\ cache_file # proc.before

\* The call of load_embeddings_cache followed a call of
\* save_embeddings_cache that succeeded.
LoadedAfterSave ==
    /\ proc.op = "load"
    /\ proc.after_save # <<>>
    /\ proc.after_save[1].out.exc = "none"

\* C24: after save_embeddings_cache(chunks, embeddings, hash) succeeds,
\* load_embeddings_cache on a processor with the same model name returns
\* chunks equal to those saved, embeddings equal element by element to
\* those saved, and the same textbook hash.
C24_CacheRoundTrip ==
    LoadedAfterSave =>
        /\ proc.out.exc = "none"
        /\ proc.out.cached # NoCache
        /\ proc.out.cached[1].chunks = proc.after_save[1].chunks
        /\ Len(proc.out.cached[1].embeddings) = Len(proc.after_save[1].embeddings)
        /\ \A i \in 1..Len(proc.after_save[1].embeddings) :
                proc.out.cached[1].embeddings[i].data
                    = proc.after_save[1].embeddings[i].data
        /\ proc.out.cached[1].textbook_hash = proc.after_save[1].textbook_hash

C24_Witness ==
    /\ LoadedAfterSave
    /\ proc.after_save[1].chunks # <<>>
    /\ proc.after_save[1].embeddings[1].data # <<>>

\* Why a textbook file cannot be loaded ("none": it can).
FailureCause(file) ==
    IF file.kind = "missing" THEN "not_found"
    ELSE IF file.kind = "undecodable" THEN "undecodable"
    ELSE IF IsBlank(file.content) THEN "empty"
    ELSE "none"

\* C25: load_textbook fails with three mutually distinct error kinds for a
\* file that is not found, for undecodable bytes and for empty or
\* whitespace-only content: a file that fails for another cause raises
\* another error kind.
C25_DistinctErrorKinds ==
    (proc.op = "load_textbook" /\ FailureCause(textbook_file) # "none") =>
        /\ proc.out.exc # "none"
        /\ \A f \in TextbookFiles :
                FailureCause(f) \notin {"none", FailureCause(textbook_file)}
                    => load_textbook(f).exc # proc.out.exc

(***************************************************************************)
(* The agent: answering without a textbook, rejected calls, the fallback.  *)
(***************************************************************************)

\* A step that is a call of get_response.
Called == calls' = calls + 1

\* A step in which get_response returns or raises.
Ended == pc' = "idle" /\ (Called \/ pc # "idle")

\* C21: if the textbook cannot be loaded (missing, undecodable or empty),
\* _get_retriever yields no retriever and get_response goes on without
\* context: a call that passes the validation reaches the language-model
\* call, and the call ends by returning the parsed answer, never raising.
C21_NoTextbookAnswersWithoutContext ==
    [][FailureCause(textbook_file) # "none" =>
            /\ retriever' = NoRetriever
            /\ Called =>
                    \/ pc' = "main" /\ api_calls' = 0
                    \/ pc' = "idle" /\ cur_choices' # <<>>
            /\ Ended => outcome'.act = "return" /\ outcome'.value \in (0 - 1)..3
            /\ (Ended /\ ~Called) => api_calls' >= 1]_vars

C21_Witness ==
    /\ textbook_file.kind = "undecodable"
    /\ cache_file.kind = "object"
    /\ pc = "idle"
    /\ cur_choices = <<>>
    /\ calls = 2
    /\ api_calls >= 1
    /\ outcome.value >= 0

\* The inputs get_response must turn down.
InvalidInput(q, chs) ==
    \/ \A i \in 1..Len(q) : q[i] \in WhiteSpace
    \/ Len(chs) < 2
    \/ Len(chs) > 4

\* C26: for an empty or whitespace-only question, or fewer than 2 or more
\* than 4 answer choices, get_response returns -1 without raising and
\* without side effect: no retriever is initialised, no query is embedded
\* and the API is not called; no such input is taken further.
C26_InvalidInputHasNoEffect ==
    [][Called =>
            /\ (pc' = "idle" /\ cur_choices' # <<>>) =>
                    /\ InvalidInput(cur_question', cur_choices')
                    /\ outcome' = Returned(0 - 1)
                    /\ retriever' = retriever
                    /\ cache_file' = cache_file
                    /\ process_calls' = process_calls
                    /\ model_loads' = model_loads
                    /\ api_calls' = 0
            /\ pc' = "main" => ~InvalidInput(cur_question', cur_choices')]_vars

C26_Witness ==
    /\ pc = "idle"
    /\ Len(cur_choices) > 4
    /\ calls = 2
    /\ retriever # NoRetriever
    /\ process_calls = 1

\* C28: within one get_response call the basic-prompt fallback is entered
\* only from the main attempt (when its API call raised an error other than
\* AuthenticationError or its response parsed to -1), at most once, and
\* what it gives (an index or -1) is returned as it is, without another
\* fallback; one call makes at most 2 * API_MAX_RETRIES API invocations.
C28_FallbackAtMostOnce ==
    [][/\ pc' = "basic" => pc \in {"main", "basic"}
       /\ pc = "basic" =>
            /\ pc' \in {"basic", "idle"}
            /\ pc' = "basic" => attempt' = attempt + 1
            /\ pc' = "idle" =>
                    outcome'.act = "return" /\ outcome'.value \in (0 - 1)..3
       /\ (pc = "main" /\ pc' = "basic") =>
            /\ attempt' = 0
            /\ api_calls' = api_calls + 1
       /\ \A e \in ApiErrors \cup {"AttributeError"} :
            (MainResult(Raised(e)) = FallsBack) <=> (e # "AuthenticationError")
       /\ \A v \in (0 - 1)..3 :
            (MainResult(Returned(v)) = FallsBack) <=> (v = 0 - 1)
       /\ attempt' < API_MAX_RETRIES
       /\ api_calls' <= 2 * API_MAX_RETRIES]_vars

C28_Witness ==
    /\ pc = "idle"
    /\ calls >= 1
    /\ api_calls = 2 * API_MAX_RETRIES
    /\ outcome.value >= 0

(***************************************************************************)
(* The API client's retry loop.                                            *)
(***************************************************************************)

\* The errors call_with_retry retries: RateLimitError, APIConnectionError
\* and APIError, with the library's other subclasses of APIError.
Retried(r) ==
    /\ r.kind = "raise"
    /\ r.error \in {"RateLimitError", "APIConnectionError", "APIError",
                     "AuthenticationError", "BadRequestError"}

\* C29: call_with_retry invokes the API function at most max_retries
\* times; it returns the first successful result without another
\* invocation, retries after a wait only on rate-limit, connection and API
\* errors, re-raises the last such error when the final attempt fails,
\* without waiting after it, and lets any other exception pass at once.
C29_RetryPolicy ==
    /\ Len(client.invoked) <= API_MAX_RETRIES
    /\ \A i \in 1..(Len(client.invoked) - 1) : Retried(client.invoked[i])
    /\ client.pc = "calling" =>
            /\ \A i \in 1..Len(client.invoked) : Retried(client.invoked[i])
            /\ Len(client.invoked) < API_MAX_RETRIES
            /\ Len(client.slept) = Len(client.invoked)
    /\ client.pc = "done" =>
            /\ client.invoked # <<>>
            /\ Len(client.slept) = Len(client.invoked) - 1
            /\ LET last == client.invoked[Len(client.invoked)] IN
                IF last.kind = "raise"
                THEN /\ client.result.act = "raise"
                     /\ client.result.exc = last.error
                     /\ Retried(last) => Len(client.invoked) = API_MAX_RETRIES
                ELSE /\ client.result.act = "return"
                     /\ client.result.value = last

C29_Witness ==
    /\ client.pc = "done"
    /\ Len(client.invoked) = API_MAX_RETRIES
    /\ client.result.act = "raise"
    /\ client.result.exc = "RateLimitError"
    /\ client.invoked[1].error = "APIConnectionError"

(***************************************************************************)
(* The memo of query embeddings.                                           *)
(***************************************************************************)

\* The step is a call of retrieve_relevant_chunks that gets as far as the
\* query embedding.
Embedding ==
    /\ rcall' # rcall
    /\ rcall'.op \in {"retrieve", "retrieve_again"}
    /\ rcall'.top_k > 0
    /\ \E i \in 1..Len(rcall'.query) : rcall'.query[i] # " "

\* The memo before and after the step.
MemoBefore == retriever[1].query_embedding_cache

MemoAfter == retriever'[1].query_embedding_cache

\* The model fails in the step: the constructor, if no model is held, or
\* encode.
ModelFails ==
    \/ ~retriever[1].model_loaded /\ ~rcall'.env.model_ok
    \/ ~rcall'.env.encode_ok

\* C30: query embeddings are memoized per Retriever on the exact query
\* text: a call with a stored string uses the stored vector without invoking
\* the model, the vector stored for a key is never changed, a call with a
\* string that is not stored invokes the model and stores what it gives,
\* and the zero vector of a failed embedding is never stored.
C30_QueryMemo ==
    [][Embedding =>
        /\ \A k \in DOMAIN MemoBefore :
                k \in DOMAIN MemoAfter /\ MemoAfter[k] = MemoBefore[k]
        /\ rcall'.query \in DOMAIN MemoBefore =>
                /\ rcall'.out.vec = MemoBefore[rcall'.query]
                /\ model_loads' = model_loads
                /\ retriever' = retriever
        /\ (rcall'.query \notin DOMAIN MemoBefore /\ ModelFails) =>
                /\ DOMAIN MemoAfter = DOMAIN MemoBefore
                /\ \A i \in 1..Len(rcall'.out.vec) : rcall'.out.vec[i] = 0
        /\ (rcall'.query \notin DOMAIN MemoBefore /\ ~ModelFails) =>
                /\ retriever'[1].model_loaded
                /\ DOMAIN MemoAfter = DOMAIN MemoBefore \cup {rcall'.query}
                /\ MemoAfter[rcall'.query] = rcall'.out.vec
                /\ \E i \in 1..Len(rcall'.out.vec) : rcall'.out.vec[i] # 0]_vars

\* A third call that finds its query stored by the second, after the
\* first call's embedding of it had failed, and needs no model.
C30_Witness ==
    /\ rcall.op = "retrieve_again"
    /\ rcall.earlier = 2
    /\ model_loads = 2
    /\ rcall.query \in DOMAIN rcall.before.query_embedding_cache
    /\ ~rcall.env.encode_ok
    /\ rcall.out.results # <<>>
    /\ rcall.out.results[1].similarity.num # 0

====
